---- MODULE Spec2Model ----
(***************************************************************************)
(* A model of ImageCompressor.py (AGPicCompress): the size-targeting       *)
(* search loops of _compress_jpg, _compress_png, _convert_to_webp and      *)
(* compress_image_from_bytes, the stall tracker they share, the ratio      *)
(* rescale of _compress_png and the padding of _adjust_file_size.          *)
(*                                                                         *)
(* Files are modelled by their length in bytes (the search only measures   *)
(* them); _adjust_file_size is also modelled on byte sequences, and the    *)
(* two models of it are checked against each other (PadLengthAgrees).      *)
(* Sizes in KB are floats `st_size / 1024` in the code; every comparison   *)
(* with an integer number of KB is made here on bytes, which is exact.     *)
(* An optional argument is a sequence: << >> is None, <<v>> is the value v.*)
(***************************************************************************)
EXTENDS Integers, Sequences, FiniteSets, TLC

\* ------------------------------------------------------------------ bounds
\* The encoder's output sizes lie on a grid of GridKB kilobytes, MaxLevel
\* levels high, each level with a few byte offsets around it.
GridKB == 5
MaxLevel == 5
\* _adjust_file_size alone is checked on files of up to MaxPadKB kilobytes.
MaxPadKB == 2
\* compress_image_from_bytes is run by NumCalls concurrent callers.
NumCalls == 2
\* A `while True` loop is followed for at most MaxEncodes encodes.
MaxEncodes == 24
\* The ratio estimate alone is checked for the targets 1..MaxTargetKB and 300.
MaxTargetKB == 29
\* The files of a search alone are followed for MaxRounds encodes.
MaxRounds == 5

\* --------------------------------------------------------- program constants
KB == 1024
\* float('inf'), the initial previous_size of every search
Inf == -1
\* a path for which exists() is False
NoFile == -1
\* subprocess.run(..., check=True) of pngquant ends with a non-zero exit status
ExitNonZero == -2

Max(a, b) == IF a >= b THEN a ELSE b
Min(a, b) == IF a <= b THEN a ELSE b

\* ------------------------------------------------------- _adjust_file_size
\* b'\x00' * n: a negative n gives the empty byte string
Zeros(n) == [i \in 1..Max(n, 0) |-> 0]

\* padding = b'\xff\xfe' + b'\x00' * (bytes_to_add - 2)
Padding(bytes_to_add) == <<255, 254>> \o Zeros(bytes_to_add - 2)

\* _adjust_file_size on the content of a file
AdjustFileGuardStrict(content, target_size_kb) ==
    IF Len(content) > target_size_kb * KB
    THEN content
    ELSE content \o Padding(target_size_kb * KB - Len(content))

AdjustFilePrepend(content, target_size_kb) ==
    IF Len(content) >= target_size_kb * KB
    THEN content
    ELSE Padding(target_size_kb * KB - Len(content)) \o content

AdjustFileSize(content, target_size_kb) ==
    IF Len(content) >= target_size_kb * KB
    THEN content
    ELSE content \o Padding(target_size_kb * KB - Len(content))

\* _adjust_file_size on the length of a file: the length of the padding is
\* 2 + max(0, bytes_to_add - 2)
AdjustedSizeNoFloor(current_size_bytes, target_size_kb) == current_size_bytes

AdjustedSize(current_size_bytes, target_size_kb) ==
    IF current_size_bytes >= target_size_kb * KB
    THEN current_size_bytes
    ELSE current_size_bytes + 2
         + Max(target_size_kb * KB - current_size_bytes - 2, 0)

\* ------------------------------------------------------------ stall tracker
\* size_reduction = previous_size - current_size; size_reduction < 5
\* (inf - x is inf, which is not < 5)
SmallChangeFromZero(prev, cur) == (IF prev = Inf THEN 0 ELSE prev) - cur < 5 * KB

SmallChange(prev, cur) == prev # Inf /\ prev - cur < 5 * KB

\* the new small_change_count
CountAfter(prev, cur, count) == IF SmallChange(prev, cur) THEN count + 1 ELSE 0

\* small_change_count >= 3: the 'Unable to compress' ValueError is raised
StallsLate(prev, cur, count) == CountAfter(prev, cur, count) >= 4

Stalls(prev, cur, count) == CountAfter(prev, cur, count) >= 3


\* ------------------------------------------------------------------- state
VARIABLES
    entry,                  \* "file": compress_image, "bytes": compress_image_from_bytes
    fmt,                    \* "PNG" | "JPEG": fp.suffix / output_format
    quality,                \* the quality argument
    webp,                   \* the webp argument
    webp_quality,           \* the webp_quality argument
    target_size,            \* the target_size argument (KB)
    size_range,             \* the size_range argument (KB, KB)
    pngquant_cmd,           \* whether find_pngquant_cmd() finds the binary
    pc,                     \* the statement the run is at
    outcome,                \* "running", "returned", "returned_none" or the exception raised
    warned,                 \* the warnings issued with warnings.warn
    first_file,             \* compress_image on a directory: TRUE until a file has been compressed
    adjusted_target_size,   \* _compress_png: the target of its search
    adjusted_size_range,    \* _compress_png: the range of its search
    trials,                 \* history: the trial encodes of the ratio estimate, in order
    current_quality,        \* the four locals of the running search
    attempts,
    small_change_count,
    previous_size,
    current_size,           \* the size the running search measured last, in bytes
    new_fp,                 \* length of the primary output file, or NoFile
    webp_fp,                \* length of the .webp file, or NoFile
    temp_file_path,         \* bytes entry: length of the size-adjust file
    temp_img_path,          \* bytes entry: length of the file handed to _convert_to_webp
    compressed_img_bytes,   \* bytes entry: length of the buffer that is returned
    last_q,                 \* history: quality of the last encode of this search (0: none)
    encodes,                \* history: encodes invoked by this search
    qualities,              \* history: the qualities passed to the encoder by this stage, in order
    search,                 \* history: the search that runs or ran last
    stop,                   \* history: why that search's loop was left
    pad_added,              \* history: bytes _adjust_file_size appended for this search
    best_size,              \* history: the smallest size this search measured (Inf: none)
    pad_orig,               \* _adjust_file_size alone: the file before any call
    pad_file,               \* the file now
    pad_once,               \* the file after the first call
    pad_target,             \* target_size_kb
    pad_calls,              \* calls made
    conc_fmt,               \* concurrent calls: output_format of each call
    conc_pc,                \* the statement each call is at
    conc_outcome,           \* "running", "returned" or the exception raised, of each call
    conc_bytes,             \* compressed_img_bytes of each call: the image it is an encode of
    temp_jpg,               \* the file Path('temp.jpg') of the working directory
    temp_png,               \* the files temp_png_file_path, one directory per call
    est_target,             \* the ratio estimate alone: target_size
    est_orig_size,          \* orig_size, the size of the PNG trial encode
    est_webp_size,          \* webp_size, the size of the WebP trial encode
    est_adjusted,           \* adjusted_target_size
    est_ratio,              \* ratio, as the fraction <<numerator, denominator>>
    est_trials,             \* the trial encodes made, in order
    est_max_size,           \* max_size when a range is rescaled (est_target is min_size), else 0
    io_entry,               \* the files of a search alone: the entry point
    io_fmt,                 \* "PNG" | "JPEG"
    io_force,               \* the force argument
    io_output,              \* the output argument
    io_pc,                  \* the statement the call is at
    io_new_fp,              \* <<the path the search writes>>, << >> before it is known
    io_disk,                \* the image each existing path holds
    io_inputs,              \* history: the image each encode read, in order
    io_small_change_count   \* small_change_count of the search

args == <<entry, fmt, quality, webp, webp_quality, target_size, size_range, pngquant_cmd>>
adjusted == <<adjusted_target_size, adjusted_size_range, trials>>
locals == <<current_quality, attempts, small_change_count, previous_size>>
files == <<new_fp, webp_fp, temp_file_path, temp_img_path, compressed_img_bytes>>
history == <<last_q, encodes, qualities, search, stop, pad_added, best_size>>
padvars == <<pad_orig, pad_file, pad_once, pad_target, pad_calls>>
concvars == <<conc_fmt, conc_pc, conc_outcome, conc_bytes, temp_jpg, temp_png>>
pipevars == <<args, pc, outcome, warned, adjusted, locals, current_size, files, history>>
estvars == <<est_target, est_orig_size, est_webp_size, est_adjusted, est_ratio, est_trials,
            est_max_size>>
\* the position of the directory loop of compress_image
dirvars == <<first_file>>
\* the variables of the specifications of single parts of the program
iovars == <<io_entry, io_fmt, io_force, io_output, io_pc, io_new_fp, io_disk, io_inputs,
           io_small_change_count>>
partvars == <<padvars, concvars, estvars, dirvars, iovars>>
vars == <<pipevars, partvars>>

IsNone(x) == x = << >>

\* ------------------------------------------------------------------ inputs
Offsets == {-1, 0}

\* what an encode may write, in bytes
EncSizes == {l * GridKB * KB + d : l \in 1..MaxLevel, d \in Offsets}

TargetArgs == {<< >>, <<0>>, <<0 - GridKB>>, <<2 * GridKB>>}

RangeArgs == {<< >>, <<2 * GridKB, 3 * GridKB>>, <<3 * GridKB, 2 * GridKB>>,
              <<2 * GridKB, 2 * GridKB>>, <<0, 3 * GridKB>>, <<0 - GridKB, 0>>}

QualityArgs(e) == IF e = "file" THEN {<< >>, <<12>>} ELSE {<<80>>, <<12>>}

WebpQualityArgs(w) == IF w THEN {100, 15} ELSE {100}

\* sizes of the two trial encodes of the ratio estimate, in bytes
OrigTrialSizes == {0, 1000}
WebpTrialSizes == {0, 700, 1000}

\* ------------------------------------------------------------------- Init
PadIdle ==
    /\ pad_orig = << >>
    /\ pad_file = << >>
    /\ pad_once = << >>
    /\ pad_target = 0
    /\ pad_calls = 0

\* no concurrent calls
ConcIdle ==
    /\ conc_fmt = << >>
    /\ conc_pc = << >>
    /\ conc_outcome = << >>
    /\ conc_bytes = << >>
    /\ temp_jpg = NoFile
    /\ temp_png = << >>

\* no ratio estimate alone
EstIdle ==
    /\ est_target = 0
    /\ est_orig_size = 0
    /\ est_webp_size = 0
    /\ est_adjusted = << >>
    /\ est_ratio = << >>
    /\ est_trials = << >>
    /\ est_max_size = 0

\* the image a path holds: the source image, or the output of the n-th encode
SourceImage == 0

\* paths, as directory and file name
Fp == [dir |-> "d", name |-> "a"]
ImageBytes == [dir |-> "memory", name |-> "image_bytes"]
TempFilePath == [dir |-> "size_adjust_dir", name |-> "temp"]

OutputNone == [kind |-> "none", dir |-> "", name |-> ""]

IoIdle ==
    /\ io_entry = "file"
    /\ io_fmt = "JPEG"
    /\ io_force = FALSE
    /\ io_output = OutputNone
    /\ io_pc = "end"
    /\ io_new_fp = << >>
    /\ io_disk = (Fp :> SourceImage)
    /\ io_inputs = << >>
    /\ io_small_change_count = 0

PipeStart ==
    /\ pc = "call"
    /\ outcome = "running"
    /\ warned = {}
    /\ first_file = TRUE
    /\ adjusted_target_size = << >>
    /\ adjusted_size_range = << >>
    /\ trials = << >>
    /\ current_quality = 0
    /\ attempts = 0
    /\ small_change_count = 0
    /\ previous_size = Inf
    /\ current_size = 0
    /\ new_fp = NoFile
    /\ webp_fp = NoFile
    /\ temp_file_path = NoFile
    /\ temp_img_path = NoFile
    /\ compressed_img_bytes = NoFile
    /\ last_q = 0
    /\ encodes = 0
    /\ best_size = Inf
    /\ qualities = << >>
    /\ search = "none"
    /\ stop = ""
    /\ pad_added = 0

Init ==
    /\ entry \in {"file", "bytes"}
    /\ fmt \in {"PNG", "JPEG"}
    /\ quality \in QualityArgs(entry)
    /\ webp \in BOOLEAN
    /\ webp_quality \in WebpQualityArgs(webp)
    /\ target_size \in TargetArgs
    /\ size_range \in RangeArgs
    /\ pngquant_cmd \in (IF fmt = "PNG" THEN BOOLEAN ELSE {TRUE})
    /\ PipeStart
    /\ PadIdle
    /\ ConcIdle
    /\ EstIdle
    /\ IoIdle

\* ---------------------------------------------------- parameter validation
\* the error the validation of both entry points raises, "" if none
ValidationNoRangeOrder(t, r) ==
    IF ~IsNone(t) /\ t[1] <= 0 THEN "ValueError"
    ELSE IF ~IsNone(t) \/ IsNone(r) THEN ""
    ELSE IF r[1] <= 0 \/ r[2] <= 0 THEN "ValueError"
    ELSE ""

ValidationError(t, r) ==
    IF ~IsNone(t) /\ t[1] <= 0 THEN "ValueError"
    ELSE IF ~IsNone(t) \/ IsNone(r) THEN ""
    ELSE IF r[1] <= 0 \/ r[2] <= 0 THEN "ValueError"
    ELSE IF r[1] >= r[2] THEN "ValueError"
    ELSE ""

\* size_range after validation: dropped (with a warning) when target_size is given
ValidatedRangeKept(t, r) == r

ValidatedRange(t, r) == IF ~IsNone(t) THEN << >> ELSE r

\* warnings.warn("Both target_size and size_range provided. Using target_size
\* and ignoring size_range."), after the check of target_size
ValidationWarnings(t, r) ==
    IF ~IsNone(t) /\ t[1] > 0 /\ ~IsNone(r) THEN {"ignoring_size_range"} ELSE {}

\* an exception that is recorded while the caller goes on to its next stage
RaiseAndGoOn(e) == outcome' = e /\ pc' = "primary_done"

Raise(e) == outcome' = e /\ pc' = "end"

\* compress_image: validation, then the dispatch on the suffix
compress_image ==
    /\ pc = "call" /\ entry = "file"
    /\ IF ValidationError(target_size, size_range) # ""
       THEN /\ Raise(ValidationError(target_size, size_range))
            /\ UNCHANGED size_range
       ELSE /\ size_range' = ValidatedRange(target_size, size_range)
            /\ pc' = IF fmt = "PNG" THEN "_compress_png" ELSE "_compress_jpg"
            /\ UNCHANGED outcome
    /\ warned' = warned \cup ValidationWarnings(target_size, size_range)
    /\ UNCHANGED <<entry, fmt, quality, webp, webp_quality, target_size, pngquant_cmd>>
    /\ UNCHANGED <<adjusted, locals, current_size, files, history, partvars>>

\* compress_image_from_bytes: validation, then the branch on output_format
compress_image_from_bytes ==
    /\ pc = "call" /\ entry = "bytes"
    /\ IF ValidationError(target_size, size_range) # ""
       THEN /\ Raise(ValidationError(target_size, size_range))
            /\ UNCHANGED size_range
       ELSE /\ size_range' = ValidatedRange(target_size, size_range)
            /\ pc' = IF fmt = "PNG" THEN "bytes_png" ELSE "bytes_jpeg"
            /\ UNCHANGED outcome
    /\ warned' = warned \cup ValidationWarnings(target_size, size_range)
    /\ UNCHANGED <<entry, fmt, quality, webp, webp_quality, target_size, pngquant_cmd>>
    /\ UNCHANGED <<adjusted, locals, current_size, files, history, partvars>>

\* ------------------------------------------------------------ search steps
\* the locals every search sets before its loop
SearchInitKeepsTracker(q, name) ==
    /\ current_quality' = q
    /\ attempts' = 0
    /\ UNCHANGED <<small_change_count, previous_size>>
    /\ last_q' = 0
    /\ encodes' = 0
    /\ best_size' = Inf
    /\ search' = name
    /\ stop' = ""

SearchInit(q, name) ==
    /\ current_quality' = q
    /\ attempts' = 0
    /\ small_change_count' = 0
    /\ previous_size' = Inf
    /\ last_q' = 0
    /\ encodes' = 0
    /\ best_size' = Inf
    /\ search' = name
    /\ stop' = ""

\* The encoder is deterministic for a fixed source and quality: an encode of the
\* same source at the quality of the previous encode writes the same size again.
EncodeSizesAnew(q) == EncSizes

EncodeSizes(q) == IF last_q = q /\ previous_size # Inf THEN {previous_size} ELSE EncSizes

\* the smallest size measured, after one more measurement
MinSeen(best, size) == IF best = Inf THEN size ELSE Min(best, size)

\* the stall test and the step of a loop whose quality step follows the test
Observe(size, step, floor) ==
    /\ small_change_count' = CountAfter(previous_size, size, small_change_count)
    /\ IF Stalls(previous_size, size, small_change_count)
       THEN /\ Raise("ConvergenceFailure")
            /\ stop' = "stall"
            /\ UNCHANGED <<previous_size, current_quality, attempts>>
       ELSE /\ previous_size' = size
            /\ current_quality' = Max(floor, current_quality - step)
            /\ attempts' = attempts + 1
            /\ UNCHANGED <<pc, outcome, stop>>


QualityOr(q, default) == IF IsNone(q) THEN default ELSE q[1]

\* a loop that runs the stall test and the step before it looks at the bound
MeasuredThenTracked(size, upper, floor, step, done) ==
    /\ current_size' = size
    /\ encodes' = encodes + 1
    /\ last_q' = current_quality
    /\ qualities' = Append(qualities, current_quality)
    /\ best_size' = MinSeen(best_size, size)
    /\ UNCHANGED warned
    /\ IF size <= upper * KB
       THEN /\ new_fp' = AdjustedSize(size, floor)
            /\ pad_added' = AdjustedSize(size, floor) - size
            /\ pc' = done
            /\ stop' = "satisfied"
            /\ previous_size' = size
            /\ current_quality' = Max(1, current_quality - step)
            /\ attempts' = attempts + 1
            /\ UNCHANGED <<outcome, small_change_count>>
       ELSE /\ new_fp' = size
            /\ Observe(size, step, 1)
            /\ UNCHANGED pad_added

\* the part of a file-entry loop iteration after `current_size = ...`, for a
\* search that stops at size <= upper KB and then pads to floor KB
Measured(size, upper, floor, step, done) ==
    /\ current_size' = size
    /\ encodes' = encodes + 1
    /\ last_q' = current_quality
    /\ qualities' = Append(qualities, current_quality)
    /\ best_size' = MinSeen(best_size, size)
    /\ UNCHANGED warned
    /\ IF size <= upper * KB
       THEN /\ new_fp' = AdjustedSize(size, floor)
            /\ pad_added' = AdjustedSize(size, floor) - size
            /\ pc' = done
            /\ stop' = "satisfied"
            /\ UNCHANGED <<outcome, locals>>
       ELSE /\ new_fp' = size
            /\ Observe(size, step, 1)
            /\ UNCHANGED pad_added

\* ------------------------------------------------------------ _compress_jpg
\* the branch on size_range / target_size and the locals of the chosen search
JpgBegin ==
    /\ pc = "_compress_jpg"
    /\ IF ~IsNone(size_range)
       THEN IF size_range[1] > size_range[2]
            THEN /\ Raise("ValueError")
                 /\ UNCHANGED <<locals, history>>
            ELSE /\ SearchInit(QualityOr(quality, 90), "jpg_range")
                 /\ pc' = "jpg_range"
                 /\ UNCHANGED <<outcome, pad_added, qualities>>
       ELSE IF ~IsNone(target_size)
            THEN /\ SearchInit(80, "jpg_exact")
                 /\ pc' = "jpg_exact"
                 /\ UNCHANGED <<outcome, pad_added, qualities>>
            ELSE /\ pc' = "jpg_plain"
                 /\ UNCHANGED <<outcome, locals, history>>
    /\ UNCHANGED <<args, warned, adjusted, current_size, files, partvars>>

\* one iteration of the `while True` loop of the range search
JpgRangeIter ==
    /\ pc = "jpg_range"
    /\ encodes < MaxEncodes
    /\ \E size \in EncodeSizes(current_quality) :
         Measured(size, size_range[2], size_range[1], 5, "primary_done")
    /\ UNCHANGED <<args, adjusted, search, partvars>>
    /\ UNCHANGED <<webp_fp, temp_file_path, temp_img_path, compressed_img_bytes>>

\* one iteration of the `while True` loop of the exact-target search
JpgExactIter ==
    /\ pc = "jpg_exact"
    /\ encodes < MaxEncodes
    /\ \E size \in EncodeSizes(current_quality) :
         Measured(size, target_size[1], target_size[1], 10, "primary_done")
    /\ UNCHANGED <<args, adjusted, search, partvars>>
    /\ UNCHANGED <<webp_fp, temp_file_path, temp_img_path, compressed_img_bytes>>

\* `quality if quality else 75`: None and 0 are both false
QualityDefaultAlways(q, default) == default

QualityIfTruthy(q, default) == IF IsNone(q) \/ q[1] = 0 THEN default ELSE q[1]

\* no constraint: one encode at quality, or at 75
JpgPlain ==
    /\ pc = "jpg_plain"
    /\ \E size \in EncSizes :
         /\ new_fp' = size
         /\ current_size' = size
    /\ last_q' = QualityIfTruthy(quality, 75)
    /\ qualities' = <<QualityIfTruthy(quality, 75)>>
    /\ encodes' = 1
    /\ search' = "jpg_plain"
    /\ pc' = "primary_done"
    /\ UNCHANGED <<args, warned, adjusted, outcome, locals, stop, pad_added, best_size, partvars>>
    /\ UNCHANGED <<webp_fp, temp_file_path, temp_img_path, compressed_img_bytes>>

\* the end of _compress_jpg / _compress_png without a WebP conversion
PrimaryReturn ==
    /\ pc = "primary_done"
    /\ ~webp
    /\ outcome' = "returned"
    /\ pc' = "end"
    /\ UNCHANGED <<args, warned, adjusted, locals, current_size, files, history, partvars>>


\* --------------------------------------------------------- _convert_to_webp
\* the arguments target_size and size_range of the call of _convert_to_webp:
\* the callers pass their own target_size and size_range
WebpTargetArgAdjusted == adjusted_target_size

WebpTargetArg == target_size

WebpRangeArg == size_range

\* the upper bound the WebP loop steps against:
\* target_size if target_size else size_range[1]
WebpUpper == IF ~IsNone(WebpTargetArg) THEN WebpTargetArg[1] ELSE WebpRangeArg[2]

\* the call of _convert_to_webp and its locals; the caller is _compress_jpg /
\* _compress_png (on new_fp) or compress_image_from_bytes (on a temporary copy
\* of compressed_img_bytes)
ConvertToWebpBegin ==
    /\ pc \in {"primary_done", "bytes_primary_done"}
    /\ webp
    /\ IF entry = "file" /\ new_fp = NoFile
       THEN /\ outcome' = "returned_none"
            /\ pc' = "end"
            /\ UNCHANGED <<temp_img_path, locals, current_size, history>>
       ELSE /\ temp_img_path' = IF entry = "bytes" THEN compressed_img_bytes ELSE temp_img_path
            /\ SearchInit(webp_quality, "webp")
            /\ qualities' = << >>
            /\ current_size' = 0
            /\ pad_added' = 0
            /\ pc' = "webp_loop"
            /\ UNCHANGED outcome
    /\ UNCHANGED <<args, warned, adjusted, partvars>>
    /\ UNCHANGED <<new_fp, webp_fp, temp_file_path, compressed_img_bytes>>

\* one iteration of `while attempts < 10`
WebpIter ==
    /\ pc = "webp_loop"
    /\ attempts < 10
    /\ \E size \in EncodeSizes(current_quality) :
         /\ current_size' = size
         /\ encodes' = encodes + 1
         /\ last_q' = current_quality
         /\ qualities' = Append(qualities, current_quality)
         /\ best_size' = MinSeen(best_size, size)
         /\ IF ~IsNone(WebpTargetArg) /\ size <= WebpTargetArg[1] * KB
            THEN /\ webp_fp' = AdjustedSize(size, WebpTargetArg[1])
                 /\ pad_added' = AdjustedSize(size, WebpTargetArg[1]) - size
                 /\ pc' = "webp_return"
                 /\ stop' = "satisfied"
                 /\ UNCHANGED <<outcome, locals>>
            ELSE IF IsNone(WebpTargetArg) /\ ~IsNone(WebpRangeArg) /\ size <= WebpRangeArg[2] * KB
            THEN /\ webp_fp' = AdjustedSize(size, WebpRangeArg[1])
                 /\ pad_added' = AdjustedSize(size, WebpRangeArg[1]) - size
                 /\ pc' = "webp_return"
                 /\ stop' = "satisfied"
                 /\ UNCHANGED <<outcome, locals>>
            ELSE IF IsNone(WebpTargetArg) /\ IsNone(WebpRangeArg)
            THEN /\ webp_fp' = size
                 /\ pc' = "webp_return"
                 /\ stop' = "unconstrained"
                 /\ UNCHANGED <<outcome, locals, pad_added>>
            ELSE /\ webp_fp' = size
                 /\ small_change_count' = CountAfter(previous_size, size, small_change_count)
                 /\ IF Stalls(previous_size, size, small_change_count)
                    THEN /\ Raise("ConvergenceFailure")
                         /\ stop' = "stall"
                         /\ UNCHANGED <<previous_size, current_quality, attempts>>
                    ELSE /\ previous_size' = size
                         /\ current_quality' = IF size > WebpUpper * KB
                                               THEN Max(10, current_quality - 5)
                                               ELSE Min(100, current_quality + 5)
                         /\ attempts' = attempts + 1
                         /\ UNCHANGED <<pc, outcome, stop>>
                 /\ UNCHANGED pad_added
    /\ UNCHANGED <<args, warned, adjusted, search, partvars>>
    /\ UNCHANGED <<new_fp, temp_file_path, temp_img_path, compressed_img_bytes>>

\* the return without os.remove(fp)
WebpReturnKeepsInput ==
    /\ \/ pc = "webp_return"
       \/ pc = "webp_loop" /\ attempts >= 10
    /\ stop' = IF pc = "webp_loop" THEN "cap" ELSE stop
    /\ temp_img_path' = IF entry = "bytes" THEN NoFile ELSE temp_img_path
    /\ compressed_img_bytes' = IF entry = "bytes" THEN webp_fp ELSE compressed_img_bytes
    /\ outcome' = "returned"
    /\ pc' = "end"
    /\ UNCHANGED <<args, warned, adjusted, locals, current_size, new_fp, webp_fp, temp_file_path, partvars>>
    /\ UNCHANGED <<last_q, encodes, qualities, search, pad_added, best_size>>

\* after the loop (left by break, or because attempts reached 10):
\* os.remove(fp); return webp_fp. compress_image then returns;
\* compress_image_from_bytes reads the .webp file and returns its bytes.
\* (Its branch for a conversion that returned no file, which warns and keeps
\* the primary bytes, is never taken: fp was just written, and the loop saves
\* webp_fp at least once.)
WebpReturn ==
    /\ \/ pc = "webp_return"
       \/ pc = "webp_loop" /\ attempts >= 10
    /\ stop' = IF pc = "webp_loop" THEN "cap" ELSE stop
    /\ new_fp' = IF entry = "file" THEN NoFile ELSE new_fp
    /\ temp_img_path' = IF entry = "bytes" THEN NoFile ELSE temp_img_path
    /\ compressed_img_bytes' = IF entry = "bytes" THEN webp_fp ELSE compressed_img_bytes
    /\ outcome' = "returned"
    /\ pc' = "end"
    /\ UNCHANGED <<args, warned, adjusted, locals, current_size, webp_fp, temp_file_path, partvars>>
    /\ UNCHANGED <<last_q, encodes, qualities, search, pad_added, best_size>>

\* ------------------------------------------------- Python float arithmetic
\* ratio and the rescaled sizes are Python floats: IEEE-754 binary64, every
\* operation rounded to the nearest 53-bit significand, ties to even. A
\* float is a record [m, e] of value m * 2^e; m is a natural number below
\* 2^60 held as 4 limbs of 15 bits, least significant first (a product of two
\* significands has 8 limbs).
Lo(x) == x % 32768
Hi(x) == x \div 32768

RECURSIVE NatLimbs(_, _)
NatLimbs(n, w) == IF w = 0 THEN << >> ELSE <<Lo(n)>> \o NatLimbs(Hi(n), w - 1)

Limb(a, i) == IF i \in 1..Len(a) THEN a[i] ELSE 0

IsZero(a) == \A i \in 1..Len(a) : a[i] = 0

\* a >= b, for a and b of the same length
RECURSIVE GeqFrom(_, _, _)
GeqFrom(a, b, i) ==
    IF i = 0 THEN TRUE
    ELSE IF a[i] # b[i] THEN a[i] > b[i]
    ELSE GeqFrom(a, b, i - 1)

Geq(a, b) == GeqFrom(a, b, Len(a))

\* a - b, for a >= b of the same length
RECURSIVE SubFrom(_, _, _, _)
SubFrom(a, b, i, borrow) ==
    IF i > Len(a) THEN << >>
    ELSE LET d == a[i] - b[i] - borrow
         IN  <<IF d < 0 THEN d + 32768 ELSE d>> \o SubFrom(a, b, i + 1, IF d < 0 THEN 1 ELSE 0)

Sub(a, b) == SubFrom(a, b, 1, 0)

\* a + b, for a and b of the same length
RECURSIVE AddFrom(_, _, _, _)
AddFrom(a, b, i, carry) ==
    IF i > Len(a) THEN << >>
    ELSE LET d == a[i] + b[i] + carry
         IN  <<Lo(d)>> \o AddFrom(a, b, i + 1, Hi(d))

Add(a, b) == AddFrom(a, b, 1, 0)

\* 2 * a + bit
RECURSIVE DblFrom(_, _, _)
DblFrom(a, i, carry) ==
    IF i > Len(a) THEN << >>
    ELSE LET d == 2 * a[i] + carry
         IN  <<Lo(d)>> \o DblFrom(a, i + 1, Hi(d))

Dbl(a, bit) == DblFrom(a, 1, bit)

\* a * x for one limb x: one limb longer than a
RECURSIVE MulLimbFrom(_, _, _, _)
MulLimbFrom(a, x, i, carry) ==
    IF i > Len(a) THEN <<carry>>
    ELSE LET d == a[i] * x + carry
         IN  <<Lo(d)>> \o MulLimbFrom(a, x, i + 1, Hi(d))

\* a * b, of Len(a) + Len(b) limbs
RECURSIVE MulFrom(_, _, _)
MulFrom(a, b, j) ==
    LET w == Len(a) + Len(b)
    IN  IF j > Len(b) THEN [i \in 1..w |-> 0]
        ELSE LET part == MulLimbFrom(a, b[j], 1, 0)
             IN  Add([i \in 1..w |-> Limb(part, i - (j - 1))], MulFrom(a, b, j + 1))

Mul(a, b) == MulFrom(a, b, 1)

\* the number of bits of a
RECURSIVE SmallBitLen(_)
SmallBitLen(x) == IF x = 0 THEN 0 ELSE 1 + SmallBitLen(x \div 2)

BitLen(a) ==
    IF IsZero(a) THEN 0
    ELSE LET top == CHOOSE i \in 1..Len(a) : a[i] # 0 /\ \A j \in (i + 1)..Len(a) : a[j] = 0
         IN  15 * (top - 1) + SmallBitLen(a[top])

\* bit n of a, from bit 0
Bit(a, n) == (Limb(a, (n \div 15) + 1) \div 2^(n % 15)) % 2

\* the n lowest bits of a are 0
LowBitsZero(a, n) ==
    \A i \in 1..Len(a) :
        IF 15 * i <= n THEN a[i] = 0
        ELSE IF 15 * (i - 1) < n THEN a[i] % 2^(n - 15 * (i - 1)) = 0
        ELSE TRUE

\* floor(a / 2^n), in w limbs
Shr(a, n, w) ==
    [i \in 1..w |-> Lo(Limb(a, i + (n \div 15)) \div 2^(n % 15)
                       + Limb(a, i + (n \div 15) + 1) * 2^(15 - (n % 15)))]

\* the float nearest to (q + f) * 2^e, 0 <= f < 1, f > 0 iff sticky
RoundFloat(q, sticky, e) ==
    IF BitLen(q) <= 53
    THEN [m |-> Shr(q, 0, 4), e |-> e]
    ELSE LET sh == BitLen(q) - 53
             m0 == Shr(q, sh, 4)
             half == Bit(q, sh - 1) = 1
             rest == sticky \/ ~LowBitsZero(q, sh - 1)
             up == half /\ (rest \/ m0[1] % 2 = 1)
             m1 == IF up THEN Add(m0, NatLimbs(1, 4)) ELSE m0
         IN  IF BitLen(m1) > 53
             THEN [m |-> Shr(m1, 1, 4), e |-> e + sh + 1]
             ELSE [m |-> m1, e |-> e + sh]

\* one step of the long division of n * 2^k by d: bit j of the dividend is
\* brought down to the remainder; st is <<quotient, remainder>>
DivStep(st, n, k, d, j) ==
    LET r2 == Dbl(st[2], IF j >= k THEN Bit(n, j - k) ELSE 0)
    IN  IF Geq(r2, d)
        THEN <<Dbl(st[1], 1), Sub(r2, d)>>
        ELSE <<Dbl(st[1], 0), r2>>

\* the steps for the bits hi down to lo of the dividend (the test of upper
\* has TLC evaluate the steps in their order, which keeps its stack small)
RECURSIVE DivBits(_, _, _, _, _, _)
DivBits(st, n, k, d, hi, lo) ==
    IF hi < lo THEN st
    ELSE IF hi = lo THEN DivStep(st, n, k, d, hi)
    ELSE LET mid == (hi + lo) \div 2
             upper == DivBits(st, n, k, d, hi, mid + 1)
         IN  IF Len(upper) = 2 THEN DivBits(upper, n, k, d, mid, lo) ELSE upper

\* quotient and remainder of n * 2^k by d
LongDiv(n, k, d) ==
    DivBits(<<NatLimbs(0, 4), NatLimbs(0, 4)>>, n, k, d, BitLen(n) + k - 1, 0)

FloatOfInt(n) == [m |-> NatLimbs(n, 4), e |-> 0]

\* a / b: the quotient is taken to 54 or 55 bits, then rounded
FloatDiv(a, b) ==
    LET k == 54 + BitLen(b.m) - BitLen(a.m)
        qr == LongDiv(a.m, k, b.m)
    IN  RoundFloat(qr[1], ~IsZero(qr[2]), a.e - b.e - k)

\* a * b
FloatMul(a, b) == RoundFloat(Mul(a.m, b.m), FALSE, a.e + b.e)

\* int(a) for 0 <= a < 2^31
IntOfFloat(a) ==
    LET fl == IF a.e >= 0 THEN a.m ELSE Shr(a.m, 0 - a.e, 4)
        n == fl[1] + 32768 * fl[2] + 32768 * 32768 * fl[3]
    IN  IF a.e >= 0 THEN n * 2^a.e ELSE n

\* ------------------------------------------------------------ _compress_png
\* ratio = webp_size / orig_size if orig_size > 0 else 0.7, as a fraction
RatioNumUnguarded(orig_size, webp_size) == webp_size

RatioNum(orig_size, webp_size) == IF orig_size > 0 THEN webp_size ELSE 7
RatioDen(orig_size, webp_size) == IF orig_size > 0 THEN orig_size ELSE 10

\* int(size / ratio * safety_factor) for ratio = num / den and
\* safety_factor = 1.1, in floats; the literals 1.1 and 0.7 are the floats
\* nearest to 11 / 10 and 7 / 10
RescaleNoSafety(size, num, den) ==
    IntOfFloat(FloatDiv(FloatOfInt(size), FloatDiv(FloatOfInt(num), FloatOfInt(den))))

\* the division the other way round: int(ratio / size * safety_factor)
RescaleInverse(size, num, den) ==
    IntOfFloat(FloatMul(FloatDiv(FloatDiv(FloatOfInt(num), FloatOfInt(den)), FloatOfInt(size)),
                        FloatDiv(FloatOfInt(11), FloatOfInt(10))))

Rescale(size, num, den) ==
    IntOfFloat(FloatMul(FloatDiv(FloatOfInt(size), FloatDiv(FloatOfInt(num), FloatOfInt(den))),
                        FloatDiv(FloatOfInt(11), FloatOfInt(10))))

\* the result of the lookup of the pngquant binary, as the callers test it
\* (`if not pngquant_cmd: raise FileNotFoundError`)
find_pngquant_cmd_unchecked == TRUE

find_pngquant_cmd == pngquant_cmd

\* what pngquant may leave at the output path of a search: a file of some
\* size, no file (only when none was there), or a non-zero exit status
PngquantRuns(q, present) ==
    EncodeSizes(q) \cup {ExitNonZero} \cup (IF present THEN {} ELSE {NoFile})

\* the locals of the search _compress_png runs for (atarget, arange)
PngBranch(atarget, arange) ==
    IF ~IsNone(arange)
    THEN IF arange[1] > arange[2]
         THEN /\ Raise("ValueError")
              /\ UNCHANGED <<locals, history>>
         ELSE /\ SearchInit(QualityOr(quality, 90), "png_range")
              /\ pc' = "png_range"
              /\ UNCHANGED <<outcome, pad_added, qualities>>
    ELSE IF ~IsNone(atarget)
         THEN /\ SearchInit(80, "png_exact")
              /\ pc' = "png_exact"
              /\ UNCHANGED <<outcome, pad_added, qualities>>
         ELSE /\ pc' = "png_plain"
              /\ UNCHANGED <<outcome, locals, history>>

\* the two trial encodes of the ratio estimate: _save_image(img, temp_orig,
\* 'PNG') and _save_image(img, temp_webp, 'WEBP', webp_quality)
TrialEncodes ==
    <<[format |-> "PNG", quality |-> << >>],
      [format |-> "WEBP", quality |-> <<webp_quality>>]>>

\* the pngquant lookup, the ratio estimate and the branch on the constraint
PngBegin ==
    /\ pc = "_compress_png"
    /\ IF ~find_pngquant_cmd
       THEN /\ Raise("FileNotFoundError")
            /\ UNCHANGED <<adjusted, locals, history>>
       ELSE IF webp /\ (~IsNone(target_size) \/ ~IsNone(size_range))
       THEN \E orig_size \in OrigTrialSizes, webp_size \in WebpTrialSizes :
              LET num == RatioNum(orig_size, webp_size)
                  den == RatioDen(orig_size, webp_size)
                  atarget == IF IsNone(target_size) THEN << >>
                             ELSE <<Rescale(target_size[1], num, den)>>
                  arange == IF IsNone(size_range) THEN << >>
                            ELSE <<Rescale(size_range[1], num, den),
                                   Rescale(size_range[2], num, den)>>
              IN  /\ trials' = TrialEncodes
                  /\ IF num = 0
                     THEN /\ Raise("ZeroDivisionError")
                          /\ UNCHANGED <<adjusted_target_size, adjusted_size_range>>
                          /\ UNCHANGED <<locals, history>>
                     ELSE /\ adjusted_target_size' = atarget
                          /\ adjusted_size_range' = arange
                          /\ PngBranch(atarget, arange)
       ELSE /\ adjusted_target_size' = target_size
            /\ adjusted_size_range' = size_range
            /\ UNCHANGED trials
            /\ PngBranch(target_size, size_range)
    /\ UNCHANGED <<args, warned, current_size, files, partvars>>

\* what a pngquant run of a file-entry search does when it wrote no file:
\* the non-zero exit raises; a missing output file warns and returns
PngNoFile(out) ==
    /\ IF out = ExitNonZero
       THEN Raise("CalledProcessError") /\ UNCHANGED warned
       ELSE /\ outcome' = "returned" /\ pc' = "end"
            /\ warned' = warned \cup {"not_generated"}
    /\ stop' = "no_output"
    /\ encodes' = encodes + 1
    /\ last_q' = current_quality
    /\ qualities' = Append(qualities, current_quality)
    /\ UNCHANGED <<locals, current_size, new_fp, pad_added, best_size>>

\* one iteration of the `while True` loop of the range search
PngRangeIter ==
    /\ pc = "png_range"
    /\ encodes < MaxEncodes
    /\ \E out \in PngquantRuns(current_quality, new_fp # NoFile) :
         IF out \in {ExitNonZero, NoFile}
         THEN PngNoFile(out)
         ELSE Measured(out, adjusted_size_range[2], adjusted_size_range[1], 5, "primary_done")
    /\ UNCHANGED <<args, adjusted, search, partvars>>
    /\ UNCHANGED <<webp_fp, temp_file_path, temp_img_path, compressed_img_bytes>>

\* one iteration of the `while True` loop of the exact-target search
PngExactIter ==
    /\ pc = "png_exact"
    /\ encodes < MaxEncodes
    /\ \E out \in PngquantRuns(current_quality, new_fp # NoFile) :
         IF out \in {ExitNonZero, NoFile}
         THEN PngNoFile(out)
         ELSE Measured(out, adjusted_target_size[1], adjusted_target_size[1], 10, "primary_done")
    /\ UNCHANGED <<args, adjusted, search, partvars>>
    /\ UNCHANGED <<webp_fp, temp_file_path, temp_img_path, compressed_img_bytes>>

\* no constraint: one pngquant run at the given quality
PngPlain ==
    /\ pc = "png_plain"
    /\ \E out \in EncSizes \cup {ExitNonZero, NoFile} :
         IF out \in {ExitNonZero, NoFile}
         THEN /\ IF out = ExitNonZero
                 THEN Raise("CalledProcessError") /\ UNCHANGED warned
                 ELSE /\ outcome' = "returned" /\ pc' = "end"
                      /\ warned' = warned \cup {"not_generated"}
              /\ stop' = "no_output"
              /\ UNCHANGED <<new_fp, current_size>>
         ELSE /\ new_fp' = out
              /\ current_size' = out
              /\ pc' = "primary_done"
              /\ UNCHANGED <<outcome, stop, warned>>
    /\ last_q' = QualityOr(quality, 0)
    /\ qualities' = <<QualityOr(quality, 0)>>
    /\ encodes' = 1
    /\ search' = "png_plain"
    /\ UNCHANGED <<args, adjusted, locals, pad_added, best_size, partvars>>
    /\ UNCHANGED <<webp_fp, temp_file_path, temp_img_path, compressed_img_bytes>>


\* ------------------------------------------- compress_image_from_bytes, JPEG
\* the first encode, at the quality argument, into compressed_img_bytes
BytesJpgInitial ==
    /\ pc = "bytes_jpeg"
    /\ \E size \in EncSizes : compressed_img_bytes' = size
    /\ qualities' = <<quality[1]>>
    /\ pc' = "bytes_branch"
    /\ UNCHANGED <<args, warned, adjusted, outcome, locals, current_size, partvars>>
    /\ UNCHANGED <<last_q, encodes, search, stop, pad_added, best_size>>
    /\ UNCHANGED <<new_fp, webp_fp, temp_file_path, temp_img_path>>

\* the upper bound and the floor of the bytes-entry search, in KB
BytesUpper == IF ~IsNone(target_size) THEN target_size[1] ELSE size_range[2]
BytesFloor == IF ~IsNone(target_size) THEN target_size[1] ELSE size_range[1]

\* `if target_size is not None: ... elif size_range is not None: ...`: the
\* buffer is written to temp_file_path and measured; the locals of the search
\* are set only when it is over the upper bound
BytesBegin ==
    /\ pc = "bytes_branch"
    /\ IF IsNone(target_size) /\ IsNone(size_range)
       THEN /\ pc' = "bytes_primary_done"
            /\ UNCHANGED <<locals, current_size, temp_file_path, history>>
       ELSE /\ temp_file_path' = compressed_img_bytes
            /\ current_size' = compressed_img_bytes
            /\ pc' = IF fmt = "PNG" THEN "bytes_png_loop" ELSE "bytes_jpeg_loop"
            /\ IF compressed_img_bytes > BytesUpper * KB
               THEN /\ SearchInit(quality[1],
                                  IF ~IsNone(target_size) THEN "bytes_exact" ELSE "bytes_range")
                    /\ UNCHANGED <<pad_added, qualities>>
               ELSE /\ search' = IF ~IsNone(target_size) THEN "bytes_exact" ELSE "bytes_range"
                    /\ last_q' = 0
                    /\ encodes' = 0
                    /\ best_size' = Inf
                    /\ stop' = ""
                    /\ UNCHANGED <<locals, pad_added, qualities>>
    /\ UNCHANGED <<args, warned, adjusted, outcome, partvars>>
    /\ UNCHANGED <<new_fp, webp_fp, temp_img_path, compressed_img_bytes>>

\* the body of a bytes-entry loop after the encode wrote `size` at quality q
BytesObserve(size, q) ==
    /\ temp_file_path' = size
    /\ current_size' = size
    /\ current_quality' = q
    /\ last_q' = q
    /\ encodes' = encodes + 1
    /\ qualities' = Append(qualities, q)
    /\ best_size' = MinSeen(best_size, size)
    /\ small_change_count' = CountAfter(previous_size, size, small_change_count)
    /\ IF Stalls(previous_size, size, small_change_count)
       THEN /\ Raise("ConvergenceFailure")
            /\ stop' = "stall"
            /\ UNCHANGED <<previous_size, attempts>>
       ELSE /\ previous_size' = size
            /\ attempts' = attempts + 1
            /\ UNCHANGED <<pc, outcome, stop>>

\* one iteration of `while current_size > target_size and attempts < 10` or of
\* `while current_size > max_size and attempts < 10`: the quality is lowered by
\* 10 first, and temp_file_path is re-encoded onto itself
BytesJpgIter ==
    /\ pc = "bytes_jpeg_loop"
    /\ current_size > BytesUpper * KB
    /\ attempts < 10
    /\ \E size \in EncSizes : BytesObserve(size, Max(1, current_quality - 10))
    /\ UNCHANGED <<args, warned, adjusted, search, pad_added, partvars>>
    /\ UNCHANGED <<new_fp, webp_fp, temp_img_path, compressed_img_bytes>>

\* after the loop: pad up to the floor when under it, else read the file back
BytesJpgAfter ==
    /\ pc = "bytes_jpeg_loop"
    /\ ~(current_size > BytesUpper * KB /\ attempts < 10)
    /\ temp_file_path' = AdjustedSize(temp_file_path, BytesFloor)
    /\ pad_added' = AdjustedSize(temp_file_path, BytesFloor) - temp_file_path
    /\ compressed_img_bytes' = AdjustedSize(temp_file_path, BytesFloor)
    /\ stop' = IF current_size > BytesUpper * KB THEN "cap" ELSE "satisfied"
    /\ pc' = "bytes_primary_done"
    /\ UNCHANGED <<args, warned, adjusted, outcome, locals, current_size, partvars>>
    /\ UNCHANGED <<new_fp, webp_fp, temp_img_path, last_q, encodes, qualities, search, best_size>>

\* -------------------------------------------- compress_image_from_bytes, PNG
\* the pngquant lookup and the first pngquant run, at the quality argument
BytesPngInitial ==
    /\ pc = "bytes_png"
    /\ IF ~find_pngquant_cmd
       THEN /\ Raise("FileNotFoundError")
            /\ UNCHANGED <<new_fp, compressed_img_bytes, warned>>
       ELSE \E out \in EncSizes \cup {ExitNonZero, NoFile} :
              IF out = ExitNonZero
              THEN /\ Raise("CalledProcessError")
                   /\ UNCHANGED <<new_fp, compressed_img_bytes, warned>>
              ELSE IF out = NoFile
              THEN /\ outcome' = "returned_none"
                   /\ pc' = "end"
                   /\ warned' = warned \cup {"not_generated"}
                   /\ UNCHANGED <<new_fp, compressed_img_bytes>>
              ELSE /\ new_fp' = out
                   /\ compressed_img_bytes' = out
                   /\ pc' = "bytes_branch"
                   /\ UNCHANGED <<outcome, warned>>
    /\ qualities' = IF find_pngquant_cmd THEN <<quality[1]>> ELSE << >>
    /\ UNCHANGED <<args, adjusted, locals, current_size, partvars>>
    /\ UNCHANGED <<last_q, encodes, search, stop, pad_added, best_size>>
    /\ UNCHANGED <<webp_fp, temp_file_path, temp_img_path>>

\* one iteration of the PNG loops: pngquant --skip-if-larger rewrites
\* temp_file_path in place, so it saves only a smaller file and otherwise
\* exits non-zero (the file is there, `if not temp_file_path.exists()` is False)
BytesPngIter ==
    /\ pc = "bytes_png_loop"
    /\ current_size > BytesUpper * KB
    /\ attempts < 10
    /\ \E out \in {s \in EncSizes : s < temp_file_path} \cup {ExitNonZero} :
         IF out = ExitNonZero
         THEN /\ Raise("CalledProcessError")
              /\ current_quality' = Max(1, current_quality - 10)
              /\ last_q' = Max(1, current_quality - 10)
              /\ encodes' = encodes + 1
              /\ qualities' = Append(qualities, Max(1, current_quality - 10))
              /\ UNCHANGED <<attempts, small_change_count, previous_size>>
              /\ UNCHANGED <<current_size, temp_file_path, stop, best_size>>
         ELSE BytesObserve(out, Max(1, current_quality - 10))
    /\ UNCHANGED <<args, warned, adjusted, search, pad_added, partvars>>
    /\ UNCHANGED <<new_fp, webp_fp, temp_img_path, compressed_img_bytes>>

\* after the loop: only `if current_size < floor` pads and reads the file
\* back; otherwise compressed_img_bytes keeps the bytes of the first run
BytesPngAfter ==
    /\ pc = "bytes_png_loop"
    /\ ~(current_size > BytesUpper * KB /\ attempts < 10)
    /\ IF current_size < BytesFloor * KB
       THEN /\ temp_file_path' = AdjustedSize(temp_file_path, BytesFloor)
            /\ pad_added' = AdjustedSize(temp_file_path, BytesFloor) - temp_file_path
            /\ compressed_img_bytes' = AdjustedSize(temp_file_path, BytesFloor)
       ELSE UNCHANGED <<temp_file_path, pad_added, compressed_img_bytes>>
    /\ stop' = IF current_size > BytesUpper * KB THEN "cap" ELSE "satisfied"
    /\ pc' = "bytes_primary_done"
    /\ UNCHANGED <<args, warned, adjusted, outcome, locals, current_size, partvars>>
    /\ UNCHANGED <<new_fp, webp_fp, temp_img_path, last_q, encodes, qualities, search, best_size>>

\* `return compressed_img_bytes` without a WebP conversion
BytesReturn ==
    /\ pc = "bytes_primary_done"
    /\ ~webp
    /\ outcome' = "returned"
    /\ pc' = "end"
    /\ UNCHANGED <<args, warned, adjusted, locals, current_size, files, history, partvars>>

\* ---------------------------------------------------------- specification
Next ==
    \/ compress_image
    \/ compress_image_from_bytes
    \/ JpgBegin
    \/ JpgRangeIter
    \/ JpgExactIter
    \/ JpgPlain
    \/ PngBegin
    \/ PngRangeIter
    \/ PngExactIter
    \/ PngPlain
    \/ PrimaryReturn
    \/ ConvertToWebpBegin
    \/ WebpIter
    \/ WebpReturn
    \/ BytesJpgInitial
    \/ BytesPngInitial
    \/ BytesBegin
    \/ BytesJpgIter
    \/ BytesJpgAfter
    \/ BytesPngIter
    \/ BytesPngAfter
    \/ BytesReturn

Spec == Init /\ [][Next]_vars

\* the steps inside the search loops, and the statement each loop is left to
LoopStep ==
    \/ JpgRangeIter
    \/ JpgExactIter
    \/ PngRangeIter
    \/ PngExactIter
    \/ WebpIter
    \/ WebpReturn
    \/ BytesJpgIter
    \/ BytesJpgAfter
    \/ BytesPngIter
    \/ BytesPngAfter

\* The calls whose searches start highest, at the default quality or at
\* quality 80 and at WebP quality 100: a search that starts lower runs the
\* same loop from a later point.
InitLive == Init /\ quality \in {<< >>, <<80>>} /\ webp_quality = 100

\* A loop that was entered runs on: its body waits for nothing.
SpecLive == InitLive /\ [][Next]_vars /\ WF_vars(LoopStep)


\* ----------------------------------------------- _adjust_file_size, alone
\* a file of the given length; byte i is (i * m) % 256
Fill(len, m) == [i \in 1..len |-> (i * m) % 256]

PadLens == {n \in {k * KB + d : k \in 0..MaxPadKB, d \in -3..1} : n >= 0}

PadFiles == {Fill(n, m) : n \in PadLens, m \in {1, 7}}

\* the pipeline at rest
PipeIdle ==
    /\ entry = "file"
    /\ fmt = "JPEG"
    /\ quality = << >>
    /\ webp = FALSE
    /\ webp_quality = 100
    /\ target_size = << >>
    /\ size_range = << >>
    /\ pngquant_cmd = TRUE
    /\ pc = "end"
    /\ outcome = "running"
    /\ warned = {}
    /\ first_file = TRUE
    /\ adjusted_target_size = << >>
    /\ adjusted_size_range = << >>
    /\ trials = << >>
    /\ current_quality = 0
    /\ attempts = 0
    /\ small_change_count = 0
    /\ previous_size = Inf
    /\ current_size = 0
    /\ new_fp = NoFile
    /\ webp_fp = NoFile
    /\ temp_file_path = NoFile
    /\ temp_img_path = NoFile
    /\ compressed_img_bytes = NoFile
    /\ last_q = 0
    /\ encodes = 0
    /\ best_size = Inf
    /\ qualities = << >>
    /\ search = "none"
    /\ stop = ""
    /\ pad_added = 0

InitPad ==
    /\ PipeIdle
    /\ pad_orig \in PadFiles
    /\ pad_file = pad_orig
    /\ pad_once = << >>
    /\ pad_target \in 1..MaxPadKB
    /\ pad_calls = 0
    /\ ConcIdle
    /\ EstIdle
    /\ IoIdle

\* a call _adjust_file_size(file_path, target_size_kb) on the file
AdjustFileSizeCall ==
    /\ pad_calls < 2
    /\ pad_file' = AdjustFileSize(pad_file, pad_target)
    /\ pad_once' = IF pad_calls = 0 THEN AdjustFileSize(pad_file, pad_target) ELSE pad_once
    /\ pad_calls' = pad_calls + 1
    /\ UNCHANGED <<pad_orig, pad_target, pipevars, concvars, estvars, dirvars, iovars>>

NextPad == AdjustFileSizeCall

SpecPad == InitPad /\ [][NextPad]_vars

\* the model of _adjust_file_size on lengths agrees with the one on contents
PadLengthAgrees ==
    Len(AdjustFileSize(pad_file, pad_target)) = AdjustedSize(Len(pad_file), pad_target)

\* ------------------------------------------------------------------ claims
\* the constraint after validation
HasTarget == ~IsNone(target_size)
HasRange == IsNone(target_size) /\ ~IsNone(size_range)

\* the output of a run that returned: the file compress_image leaves, the
\* bytes compress_image_from_bytes returns
FinalSize ==
    IF entry = "bytes" THEN compressed_img_bytes
    ELSE IF webp THEN webp_fp
    ELSE new_fp

Succeeded == outcome = "returned" /\ FinalSize # NoFile

\* C1: a run that reports success leaves an output whose size satisfies the
\* caller's constraint: size <= target_size for an exact target,
\* min_size <= size <= max_size for a range.
C1_FinalSizeMeetsConstraint ==
    Succeeded =>
        /\ HasTarget => FinalSize <= target_size[1] * KB
        /\ HasRange => /\ size_range[1] * KB <= FinalSize
                       /\ FinalSize <= size_range[2] * KB

\* the searches with a loop, and those for an exact target
Loops == {"jpg_range", "jpg_exact", "png_range", "png_exact", "webp",
          "bytes_exact", "bytes_range"}

ExactSearch ==
    \/ search \in {"jpg_exact", "png_exact", "bytes_exact"}
    \/ search = "webp" /\ HasTarget

\* C2: an exact-target search whose encodes all stay above the target ends
\* with the convergence failure after at most 10 encodes: it performs no 11th
\* encode, and it does not end any other way.
C2_ExactSearchWithinTenEncodes ==
    ExactSearch =>
        /\ encodes <= 10
        /\ stop \in {"stall", "cap"} => outcome = "ConvergenceFailure"

\* C3: a loop left because attempts reached 10, with the last measured size
\* still above the upper bound, ends with the convergence failure, never with
\* a normal continuation or return.
C3_CapIsFailure == stop = "cap" => outcome = "ConvergenceFailure"

\* the upper bound, in KB, of the search that runs: _compress_png searches
\* against the adjusted constraint, every other search against the caller's
SearchUpper ==
    IF search = "png_range" THEN adjusted_size_range[2]
    ELSE IF search = "png_exact" THEN adjusted_target_size[1]
    ELSE IF HasTarget THEN target_size[1]
    ELSE size_range[2]

SearchFloor ==
    IF search = "png_range" THEN adjusted_size_range[1]
    ELSE IF search = "png_exact" THEN adjusted_target_size[1]
    ELSE IF HasTarget THEN target_size[1]
    ELSE size_range[1]

\* the file the search that runs writes
SearchOutput ==
    IF search = "webp" THEN webp_fp
    ELSE IF search \in {"bytes_exact", "bytes_range"} THEN temp_file_path
    ELSE new_fp

\* a step in which a search measured a size that does not satisfy its stop
\* predicate
NonTerminalObservation ==
    /\ search \in Loops
    /\ HasTarget \/ HasRange
    /\ encodes' = encodes + 1
    /\ outcome' # "CalledProcessError"
    /\ stop' # "no_output"
    /\ current_size' > SearchUpper * KB

C4_Step ==
    NonTerminalObservation =>
        LET small == previous_size # Inf /\ previous_size - current_size' < 5 * KB
        IN  /\ small_change_count' = IF small THEN small_change_count + 1 ELSE 0
            /\ (outcome' = "ConvergenceFailure") = (small_change_count' = 3)
            /\ outcome' # "ConvergenceFailure" => previous_size' = current_size'

C4_State ==
    /\ search \in Loops /\ encodes = 0 => previous_size = Inf /\ small_change_count = 0
    /\ small_change_count <= 3
    /\ small_change_count = 3 => outcome = "ConvergenceFailure"

\* C4: in every search loop previous_size starts at +infinity and the streak
\* at 0; a non-terminal observation with previous_size - current_size < 5 KB
\* increments the streak and any other resets it to 0; the convergence failure
\* is raised exactly when the streak reaches 3; otherwise previous_size becomes
\* current_size.
C4_StallTracker == [](C4_State) /\ [][C4_Step]_vars

C4_Witness ==
    /\ outcome = "ConvergenceFailure"
    /\ small_change_count = 3
    /\ previous_size > current_size
    /\ encodes > 4

\* C5: a range search of _compress_jpg / _compress_png over min < max that
\* ends successfully stopped at an encode with size <= max, and leaves a file
\* of size s with min <= s <= max: the encode itself, or the encode padded up
\* to min when it was under min.
C5_RangeSearchInRange ==
    /\ (/\ search \in {"jpg_range", "png_range"}
        /\ stop = "satisfied"
        /\ SearchFloor < SearchUpper) =>
           /\ current_size <= SearchUpper * KB
           /\ SearchFloor * KB <= new_fp
           /\ new_fp <= SearchUpper * KB
           /\ new_fp >= current_size
           /\ current_size >= SearchFloor * KB => new_fp = current_size
    /\ (/\ search \in {"jpg_range", "png_range"}
        /\ outcome = "running"
        /\ stop = ""
        /\ encodes > 0) => current_size > SearchUpper * KB

C5_Witness ==
    /\ search \in {"jpg_range", "png_range"}
    /\ stop = "satisfied"
    /\ SearchFloor < SearchUpper
    /\ current_size < SearchFloor * KB
    /\ new_fp > current_size

\* C6: an exact-target search that ends successfully leaves an output of at
\* most target KB; it is padded whenever the successful encode is strictly
\* below target, and a padded output is not below target.
C6_ExactWithinTarget ==
    (ExactSearch /\ stop = "satisfied") =>
        /\ SearchOutput <= SearchUpper * KB
        /\ current_size < SearchUpper * KB => pad_added > 0
        /\ pad_added > 0 => /\ SearchOutput >= SearchUpper * KB
                            /\ SearchOutput - SearchUpper * KB < KB

\* C7: _adjust_file_size on a file of length L < target_kb * 1024 appends
\* exactly target_kb * 1024 - L bytes: the result has length target_kb * 1024.
C7_PadsToExactLength ==
    (pad_calls >= 1 /\ Len(pad_orig) < pad_target * KB) =>
        Len(pad_once) = pad_target * KB

\* C8: _adjust_file_size only appends: the file after a call is at least as
\* long as before it and begins with the content it had before it.
C8_OnlyAppends ==
    /\ pad_calls >= 1 => /\ Len(pad_once) >= Len(pad_orig)
                         /\ SubSeq(pad_once, 1, Len(pad_orig)) = pad_orig
    /\ pad_calls = 2 => /\ Len(pad_file) >= Len(pad_once)
                        /\ SubSeq(pad_file, 1, Len(pad_once)) = pad_once

C8_Witness ==
    /\ pad_calls >= 1
    /\ Len(pad_orig) > 0
    /\ Len(pad_once) > Len(pad_orig)

\* C9: _adjust_file_size leaves a file of at least target_kb * 1024 bytes
\* unchanged, and a second call with the same target changes nothing.
C9_NoOpAndIdempotent ==
    /\ (pad_calls >= 1 /\ Len(pad_orig) >= pad_target * KB) => pad_once = pad_orig
    /\ pad_calls = 2 => pad_file = pad_once

C9_Witness ==
    /\ pad_calls = 2
    /\ Len(pad_orig) < pad_target * KB
    /\ Len(pad_once) > Len(pad_orig)
    /\ pad_file = pad_once

\* malformed arguments, as the claim has them: any supplied bound <= 0, or a
\* supplied range with min >= max
MalformedAny(t, r) ==
    \/ ~IsNone(t) /\ t[1] <= 0
    \/ ~IsNone(r) /\ (r[1] <= 0 \/ r[2] <= 0 \/ r[1] >= r[2])

\* malformed arguments among those the run uses: size_range counts only
\* when target_size is None
MalformedUsed(t, r) ==
    \/ ~IsNone(t) /\ t[1] <= 0
    \/ IsNone(t) /\ ~IsNone(r) /\ (r[1] <= 0 \/ r[2] <= 0 \/ r[1] >= r[2])

\* the call raised out of the validation: nothing was encoded or written
RejectedStep ==
    /\ outcome' = "ValueError"
    /\ pc' = "end"
    /\ encodes' = 0
    /\ UNCHANGED files

\* C10 as claimed: every call with a malformed target_size or size_range
\* raises before any encode or write.
C10_RejectsAnyMalformed ==
    [][(pc = "call" /\ MalformedAny(target_size, size_range)) => RejectedStep]_vars

\* C10, amended: a call raises before any encode or write when target_size
\* is <= 0, or when target_size is None and size_range has a bound <= 0 or
\* min >= max; nothing happens after the error.
C10_RejectsUsedMalformed ==
    /\ [][(pc = "call" /\ MalformedUsed(target_size, size_range)) => RejectedStep]_vars
    /\ [][pc # "end"]_vars

C10_Witness ==
    /\ outcome = "ValueError"
    /\ IsNone(target_size)
    /\ ~IsNone(size_range)
    /\ size_range[1] > 0
    /\ size_range[1] >= size_range[2]
    /\ encodes = 0
    /\ new_fp = NoFile

\* the qualities of the first n encodes of an exact-target search that starts
\* at 80 whatever the quality argument is, and of the first n conversions of
\* the WebP loop, which starts at webp_quality
ExactQualities(n) == [k \in 1..n |-> Max(1, 80 - 10 * (k - 1))]
WebpQualities(n) == [k \in 1..n |-> Max(10, webp_quality - 5 * (k - 1))]

\* C11: with a target_size the quality argument is ignored: the qualities
\* passed to the encoder are the same for every value of the argument, those
\* of the run with the default quality (80, then steps of 10 down to 1; the
\* WebP conversions from webp_quality), in both entry points.
C11_QualityIgnored ==
    HasTarget =>
        qualities = IF search = "webp"
                    THEN WebpQualities(Len(qualities))
                    ELSE ExactQualities(Len(qualities))

\* the validation step of a call with a valid target_size and a size_range
BothSupplied ==
    /\ pc = "call"
    /\ ~IsNone(target_size) /\ target_size[1] > 0
    /\ ~IsNone(size_range)

\* C12: when both target_size and size_range are supplied, target_size is
\* used and size_range is ignored: the validation leaves the run in the state
\* of the run with the same target_size and size_range = None (but for the
\* warning), and after validation at most one of the two is set.
C12_TargetOverridesRange ==
    /\ [](pc # "call" /\ outcome = "running" => IsNone(target_size) \/ IsNone(size_range))
    /\ [][BothSupplied =>
            /\ size_range' = << >>
            /\ warned' = {"ignoring_size_range"}
            /\ outcome' = "running"
            /\ UNCHANGED <<entry, fmt, quality, webp, webp_quality, target_size, pngquant_cmd>>
            /\ UNCHANGED <<adjusted, locals, current_size, files, history>>]_vars

C12_Witness ==
    /\ "ignoring_size_range" \in warned
    /\ search \in {"jpg_exact", "png_exact", "bytes_exact"}
    /\ stop = "satisfied"
    /\ pad_added > 0

\* ------------------------------- concurrent calls of compress_image_from_bytes
\* Call p compresses image p. A file holds the encode of one image, no bytes
\* (Empty), or bytes of more than one writer (Mixed).
Calls == 1..NumCalls
Empty == 0
Mixed == -3

InitConc ==
    /\ PipeIdle
    /\ PadIdle
    /\ EstIdle
    /\ IoIdle
    /\ conc_fmt \in [Calls -> {"JPEG", "PNG"}]
    /\ conc_pc = [p \in Calls |-> "call"]
    /\ conc_outcome = [p \in Calls |-> "running"]
    /\ conc_bytes = [p \in Calls |-> Empty]
    /\ temp_jpg = NoFile
    /\ temp_png = [p \in Calls |-> NoFile]

ConcRaise(p, e) ==
    /\ conc_outcome' = [conc_outcome EXCEPT ![p] = e]
    /\ conc_pc' = [conc_pc EXCEPT ![p] = "end"]

\* _save_image(img, Path('temp.jpg'), 'JPEG', quality): open(file_path, 'wb')
\* creates the file of the working directory or truncates the one that is there
SaveImageOpen(p) ==
    /\ conc_pc[p] = "call" /\ conc_fmt[p] = "JPEG"
    /\ temp_jpg' = Empty
    /\ conc_pc' = [conc_pc EXCEPT ![p] = "write"]
    /\ UNCHANGED <<conc_fmt, conc_outcome, conc_bytes, temp_png>>
    /\ UNCHANGED <<pipevars, padvars, estvars, dirvars, iovars>>

\* f.write(img_bytes) from offset 0: onto the bytes another caller wrote since
\* the truncation, of which a tail is left when they are longer; into a file
\* another caller has removed since, which leaves the path as it is
SaveImageWrite(p) ==
    /\ conc_pc[p] \in {"write", "write_unlinked"}
    /\ IF conc_pc[p] = "write_unlinked" THEN UNCHANGED temp_jpg
       ELSE IF temp_jpg = Empty THEN temp_jpg' = p
       ELSE temp_jpg' \in {p, Mixed}
    /\ conc_pc' = [conc_pc EXCEPT ![p] = "read"]
    /\ UNCHANGED <<conc_fmt, conc_outcome, conc_bytes, temp_png>>
    /\ UNCHANGED <<pipevars, padvars, estvars, dirvars, iovars>>

\* with open(Path('temp.jpg'), 'rb') as temp_file: compressed_img_bytes = temp_file.read()
ReadTempJpg(p) ==
    /\ conc_pc[p] = "read"
    /\ IF temp_jpg = NoFile
       THEN /\ ConcRaise(p, "FileNotFoundError")
            /\ UNCHANGED conc_bytes
       ELSE /\ conc_bytes' = [conc_bytes EXCEPT ![p] = temp_jpg]
            /\ conc_pc' = [conc_pc EXCEPT ![p] = "remove"]
            /\ UNCHANGED conc_outcome
    /\ UNCHANGED <<conc_fmt, temp_jpg, temp_png>>
    /\ UNCHANGED <<pipevars, padvars, estvars, dirvars, iovars>>

\* os.remove(Path('temp.jpg')); a caller that holds the file open for writing
\* keeps writing into the removed file
RemoveTempJpg(p) ==
    /\ conc_pc[p] = "remove"
    /\ IF temp_jpg = NoFile
       THEN /\ ConcRaise(p, "FileNotFoundError")
            /\ UNCHANGED temp_jpg
       ELSE /\ temp_jpg' = NoFile
            /\ conc_pc' = [q \in Calls |->
                             IF q = p THEN "optimize"
                             ELSE IF conc_pc[q] = "write" THEN "write_unlinked"
                             ELSE conc_pc[q]]
            /\ UNCHANGED conc_outcome
    /\ UNCHANGED <<conc_fmt, conc_bytes, temp_png>>
    /\ UNCHANGED <<pipevars, padvars, estvars, dirvars, iovars>>

\* mozjpeg_lossless_optimization.optimize(compressed_img_bytes) and the rest of
\* the call, which works in temporary directories of its own: bytes that are
\* not a JPEG image are rejected by the optimizer or passed on
JpegRest(p) ==
    /\ conc_pc[p] = "optimize"
    /\ IF conc_bytes[p] \in Calls
       THEN conc_outcome' = [conc_outcome EXCEPT ![p] = "returned"]
       ELSE \E o \in {"returned", "ValueError"} :
              conc_outcome' = [conc_outcome EXCEPT ![p] = o]
    /\ conc_pc' = [conc_pc EXCEPT ![p] = "end"]
    /\ UNCHANGED <<conc_fmt, conc_bytes, temp_jpg, temp_png>>
    /\ UNCHANGED <<pipevars, padvars, estvars, dirvars, iovars>>

\* output_format 'PNG': temp_png_file_path is in a tempfile.TemporaryDirectory
\* of the call
SaveTempPng(p) ==
    /\ conc_pc[p] = "call" /\ conc_fmt[p] = "PNG"
    /\ temp_png' = [temp_png EXCEPT ![p] = p]
    /\ conc_pc' = [conc_pc EXCEPT ![p] = "pngquant"]
    /\ UNCHANGED <<conc_fmt, conc_outcome, conc_bytes, temp_jpg>>
    /\ UNCHANGED <<pipevars, padvars, estvars, dirvars, iovars>>

\* pngquant on temp_png_file_path, read back into compressed_img_bytes, and
\* the rest of the call
PngRest(p) ==
    /\ conc_pc[p] = "pngquant"
    /\ conc_bytes' = [conc_bytes EXCEPT ![p] = temp_png[p]]
    /\ conc_outcome' = [conc_outcome EXCEPT ![p] = "returned"]
    /\ conc_pc' = [conc_pc EXCEPT ![p] = "end"]
    /\ UNCHANGED <<conc_fmt, temp_jpg, temp_png>>
    /\ UNCHANGED <<pipevars, padvars, estvars, dirvars, iovars>>

NextConc ==
    \E p \in Calls :
        \/ SaveImageOpen(p)
        \/ SaveImageWrite(p)
        \/ ReadTempJpg(p)
        \/ RemoveTempJpg(p)
        \/ JpegRest(p)
        \/ SaveTempPng(p)
        \/ PngRest(p)

SpecConc == InitConc /\ [][NextConc]_vars

\* C13: concurrent calls on different images need no coordination: under
\* every interleaving no call fails, and each call that returns returns the
\* encode of its own image, as it does when it runs alone.
C13_ConcurrentCallsIndependent ==
    \A p \in Calls :
        /\ conc_outcome[p] \in {"running", "returned"}
        /\ conc_outcome[p] = "returned" => conc_bytes[p] = p

\* the WebP conversion did not meet the constraint: its loop ended by the
\* stall test or because attempts reached 10
WebpFailed == search = "webp" /\ stop \in {"stall", "cap"}

\* C14: when the primary compression succeeded and the WebP conversion failed
\* to meet the constraint, the run returns normally with a warning and keeps
\* the primary artifact: compress_image leaves the primary file in place,
\* compress_image_from_bytes returns bytes.
C14_PartialSuccessKeepsPrimary ==
    WebpFailed =>
        /\ outcome \in {"running", "returned"}
        /\ pc = "end" => /\ outcome = "returned"
                         /\ warned # {}
                         /\ entry = "file" => new_fp # NoFile
                         /\ entry = "bytes" => compressed_img_bytes # NoFile

\* ------------------------------------------------- the ratio estimate, alone
EstTargets == 1..MaxTargetKB \cup {300}
EstOrigSizes == {10, 1000}
EstWebpSizes == {11, 700, 1000, 1100}

InitEst ==
    /\ PipeIdle
    /\ PadIdle
    /\ ConcIdle
    /\ IoIdle
    /\ est_target \in EstTargets
    /\ est_orig_size \in EstOrigSizes
    /\ est_webp_size \in EstWebpSizes
    /\ est_adjusted = << >>
    /\ est_ratio = << >>
    /\ est_trials = << >>
    /\ est_max_size = 0

\* ratio = webp_size / orig_size ...;
\* adjusted_target_size = int(target_size / ratio * safety_factor)
EstimateRatio ==
    /\ est_adjusted = << >>
    /\ est_adjusted' = <<Rescale(est_target,
                                 RatioNum(est_orig_size, est_webp_size),
                                 RatioDen(est_orig_size, est_webp_size))>>
    /\ est_ratio' = <<RatioNum(est_orig_size, est_webp_size),
                      RatioDen(est_orig_size, est_webp_size)>>
    /\ est_trials' = TrialEncodes
    /\ UNCHANGED <<est_target, est_orig_size, est_webp_size, est_max_size>>
    /\ UNCHANGED <<pipevars, padvars, concvars, dirvars, iovars>>

NextEst == EstimateRatio

SpecEst == InitEst /\ [][NextEst]_vars

\* t * primary * 11 / (secondary * 10) in whole numbers: quotient and remainder
ExactRescale == (est_target * est_orig_size * 11) \div (est_webp_size * 10)
ExactRemainder == (est_target * est_orig_size * 11) % (est_webp_size * 10)

\* C15 as claimed: the rescaled target is floor(t * primary * 11 /
\* (secondary * 10)) for all positive trial sizes.
C15_RescaleIsFloor ==
    est_adjusted # << >> => est_adjusted[1] = ExactRescale

\* C15, amended: the rescaled target is int(t / ratio * 1.1) in double
\* precision, ratio = secondary / primary; 300 KB at trial sizes 1000 and 700
\* gives 471 KB; the value is floor(t * primary * 11 / (secondary * 10))
\* whenever that quotient is not a whole number, and the quotient or one
\* less when it is.
C15_RescaleNearFloor ==
    est_adjusted # << >> =>
        /\ est_adjusted[1] \in {ExactRescale - 1, ExactRescale}
        /\ ExactRemainder # 0 => est_adjusted[1] = ExactRescale
        /\ (est_target = 300 /\ est_orig_size = 1000 /\ est_webp_size = 700)
               => est_adjusted[1] = 471

C15_Witness ==
    /\ est_target = 300
    /\ est_orig_size = 1000
    /\ est_webp_size = 700
    /\ est_adjusted = <<471>>

\* a search loop is running
InLoop ==
    pc \in {"jpg_range", "jpg_exact", "png_range", "png_exact", "webp_loop",
            "bytes_jpeg_loop", "bytes_png_loop"}

StatedStep ==
    IF search \in {"jpg_exact", "png_exact", "bytes_exact"} THEN 10 ELSE 5

\* C17: in every JPEG/PNG search, of the file entry and of the bytes entry, an
\* iteration that moves the quality moves it to max(1, q - 10) in an exact-target
\* search and to max(1, q - 5) in a range search.
C17_QualityStep ==
    [][(/\ search \in {"jpg_exact", "png_exact", "bytes_exact",
                       "jpg_range", "png_range", "bytes_range"}
        /\ search' = search
        /\ encodes' = encodes + 1
        /\ current_quality' # current_quality)
       => current_quality' = Max(1, current_quality - StatedStep)]_vars

\* ------------------------------------------------------------------- C18
\* C18: the convergence failure is raised only for an encode whose measured
\* size does not satisfy the stop predicate of its search (size <= target for
\* an exact target, size <= max for a range): in every loop the success test of
\* an observation comes before its stall test.
C18_FailureOnlyWhenUnsatisfied ==
    (/\ outcome = "ConvergenceFailure"
     /\ search \in Loops
     /\ stop = "stall") => current_size > SearchUpper * KB

\* ------------------------------------------------------------------- C19
\* f"Best achieved: {current_size:.2f}KB" for a size in bytes: current_size is
\* the float size / 1024 (exact), printed to two decimals, ties to even; the
\* value is the number of hundredths of a KB that is printed
BestAchieved(size) ==
    LET n == size * 100
        q == n \div KB
        r == n % KB
    IN  IF r > KB \div 2 \/ (r = KB \div 2 /\ q % 2 = 1) THEN q + 1 ELSE q

\* C19: the size the convergence failure reports ("Best achieved:
\* {current_size}") is the best size achieved: the minimum of the sizes the
\* search measured, whatever their order.
C19_ReportsBestSize ==
    (/\ outcome = "ConvergenceFailure"
     /\ search \in Loops
     /\ stop = "stall") => BestAchieved(current_size) = BestAchieved(best_size)

\* ------------------------------------------------------------------- C20
\* an encode step of the run left no output file: pngquant exited non-zero, or
\* exited normally without writing the file (the case the code warns about)
NoOutput == stop = "no_output" \/ "not_generated" \in warned

\* C20: an encode step that produces no output ends the run in an error: a
\* run in which the output file was missing after an encode is never left by a
\* normal return.
C20_NoOutputIsError ==
    NoOutput => outcome \notin {"running", "returned", "returned_none"}

\* ------------------------------------------------------------------- C21
\* the searches of the primary format in the file entry
PrimarySearches == {"jpg_range", "jpg_exact", "png_range", "png_exact"}

\* the constraint of the caller that the search which runs stands for
CallerFloor == IF search \in {"jpg_range", "png_range"} THEN size_range[1] ELSE target_size[1]
CallerUpper == IF search \in {"jpg_range", "png_range"} THEN size_range[2] ELSE target_size[1]

\* C21: the primary search of a PNG or of a JPEG input gets the rescaled
\* constraint, every bound b replaced by int(b / ratio * 1.1) for the one
\* ratio of the trial encodes, exactly when a WebP conversion and a size
\* constraint are both requested; in every other case it gets the caller's
\* constraint as it is.
C21_RescaledExactlyWhenWebp ==
    [][(search \notin PrimarySearches /\ search' \in PrimarySearches) =>
         IF webp
         THEN /\ trials' = TrialEncodes
              /\ \E orig_size \in OrigTrialSizes, webp_size \in WebpTrialSizes :
                   LET num == RatioNum(orig_size, webp_size)
                       den == RatioDen(orig_size, webp_size)
                   IN  /\ num # 0
                       /\ SearchFloor' = Rescale(CallerFloor', num, den)
                       /\ SearchUpper' = Rescale(CallerUpper', num, den)
         ELSE /\ trials' = << >>
              /\ SearchFloor' = CallerFloor'
              /\ SearchUpper' = CallerUpper']_vars

\* ------------------------------------------------------------------- C22
\* C22: the WebP stage searches against the caller's own constraint, never
\* the ratio-adjusted one of the primary search: an encode of the WebP loop
\* satisfies the search exactly when its size is within the caller's
\* target_size (or the caller's max_size), and the pad that follows fills up
\* to the caller's target_size (or the caller's min_size).
C22_WebpAgainstCallerConstraint ==
    [][(search = "webp" /\ encodes' = encodes + 1) =>
         /\ HasTarget =>
              /\ (stop' = "satisfied") = (current_size' <= target_size[1] * KB)
              /\ stop' = "satisfied" => webp_fp' = AdjustedSize(current_size', target_size[1])
         /\ HasRange =>
              /\ (stop' = "satisfied") = (current_size' <= size_range[2] * KB)
              /\ stop' = "satisfied" => webp_fp' = AdjustedSize(current_size', size_range[1])]_vars

\* a WebP encode within the adjusted target of the primary search, and over
\* the caller's, did not end the WebP search
C22_Witness ==
    /\ search = "webp"
    /\ HasTarget
    /\ adjusted_target_size # << >>
    /\ adjusted_target_size[1] > target_size[1]
    /\ encodes > 0
    /\ current_size > target_size[1] * KB
    /\ current_size <= adjusted_target_size[1] * KB
    /\ stop = ""
    /\ outcome = "running"

\* ------------------------------------------------------------------- C23
\* Neither entry point nor the command line checks the range of quality
\* (`-q 105` is accepted: QualityInteger.convert takes any string of digits):
\* the calls with a quality above 100.
InitWide ==
    /\ entry \in {"file", "bytes"}
    /\ fmt \in {"PNG", "JPEG"}
    /\ quality = <<105>>
    /\ webp \in BOOLEAN
    /\ webp_quality \in WebpQualityArgs(webp)
    /\ target_size \in TargetArgs
    /\ size_range \in RangeArgs
    /\ pngquant_cmd \in (IF fmt = "PNG" THEN BOOLEAN ELSE {TRUE})
    /\ PipeStart
    /\ PadIdle
    /\ ConcIdle
    /\ EstIdle
    /\ IoIdle

SpecWide == InitWide /\ [][Next]_vars

\* C23: every quality a search passes to the encoder lies in [1, 100], in
\* every loop of both entry points.
C23_QualitiesInRange ==
    search \in Loops => \A k \in 1..Len(qualities) : qualities[k] \in 1..100

\* ------------------------------------------------------------------- C24
\* the first encode of a loop measured a size within the bound of its search
FirstEncodeSatisfies ==
    /\ search \in Loops \ {"bytes_exact", "bytes_range"}
    /\ search' = search
    /\ HasTarget \/ HasRange
    /\ encodes = 0
    /\ encodes' = 1
    /\ stop' # "no_output"
    /\ outcome' # "CalledProcessError"
    /\ current_size' <= SearchUpper * KB

\* C24: a search whose very first encode satisfies the constraint ends after
\* that one encode: the quality is not reduced, the stall tracker is not
\* consulted (attempts, the streak and previous_size keep their initial
\* values) and no further encode follows. In the bytes entry the first encode
\* is the one made before the loop: the loop encodes only when that one is over
\* the bound.
C24_FirstEncodeSuffices ==
    /\ [][FirstEncodeSatisfies =>
            /\ stop' = "satisfied"
            /\ ~InLoop'
            /\ UNCHANGED locals
            /\ attempts = 0 /\ small_change_count = 0 /\ previous_size = Inf]_vars
    /\ [][(stop = "satisfied" /\ search' = search) =>
            (encodes' = encodes /\ qualities' = qualities)]_vars
    /\ [][(search \in {"bytes_exact", "bytes_range"} /\ search' = search
           /\ encodes = 0 /\ encodes' = 1) =>
            current_size > SearchUpper * KB]_vars

C24_Witness ==
    /\ search \in {"jpg_range", "jpg_exact", "png_range", "png_exact", "webp"}
    /\ stop = "satisfied"
    /\ encodes = 1
    /\ attempts = 0
    /\ small_change_count = 0
    /\ previous_size = Inf
    /\ current_size <= SearchUpper * KB

\* ------------------------------------------------------------------- C25
\* the run ended with an exception
Failed == outcome \notin {"running", "returned", "returned_none"}

\* C25: a failure of a stage ends the run, and the stages run in order: the
\* trial encodes of the ratio estimate are made before any encode of the
\* primary search; the WebP stage is entered only from a primary stage that
\* ended without an exception and left an output; after a primary stage
\* that raised or produced no output no WebP encode of the conversion is made.
C25_StagesInOrder ==
    /\ [][outcome = "running"]_vars
    /\ [][trials' # trials => (search = "none" /\ qualities = << >>)]_vars
    /\ [][(search # "webp" /\ search' = "webp") =>
            /\ pc \in {"primary_done", "bytes_primary_done"}
            /\ outcome = "running"
            /\ "not_generated" \notin warned
            /\ IF entry = "file" THEN new_fp # NoFile ELSE compressed_img_bytes # NoFile]_vars
    /\ []((Failed \/ "not_generated" \in warned) /\ search # "webp" => webp_fp = NoFile)

\* the estimate ran, then the primary search failed, with a conversion requested
C25_Witness ==
    /\ webp
    /\ trials # << >>
    /\ search \in {"png_range", "png_exact"}
    /\ outcome = "ConvergenceFailure"
    /\ encodes > 1
    /\ webp_fp = NoFile
    /\ pc = "end"

Unconstrained == IsNone(target_size) /\ IsNone(size_range)

\* C27: without a target_size and a size_range no search loop runs: the
\* primary stage encodes exactly once (JPEG at the given quality, at 75 when
\* quality is None; pngquant once), no trial encode is made, the stall tracker
\* is never touched, and a requested WebP conversion encodes exactly once, at
\* webp_quality.
C27_UnconstrainedEncodesOnce ==
    Unconstrained =>
        /\ search \in {"none", "jpg_plain", "png_plain", "webp"}
        /\ Len(qualities) <= 1
        /\ trials = << >>
        /\ attempts = 0 /\ small_change_count = 0 /\ previous_size = Inf
        /\ pc = "primary_done" => (encodes = 1 /\ Len(qualities) = 1)
        /\ pc = "bytes_primary_done" => qualities = <<quality[1]>>
        /\ search = "jpg_plain" =>
             qualities = <<IF IsNone(quality) THEN 75 ELSE quality[1]>>
        /\ search = "png_plain" => encodes = 1
        /\ (search = "webp" /\ encodes > 0) =>
             (encodes = 1 /\ qualities = <<webp_quality>> /\ stop = "unconstrained")
        /\ (outcome = "returned" /\ webp /\ "not_generated" \notin warned) =>
             (search = "webp" /\ encodes = 1)

\* a run without a constraint converted to WebP with one encode
C27_Witness ==
    /\ Unconstrained
    /\ outcome = "returned"
    /\ webp
    /\ webp_quality = 15
    /\ search = "webp"
    /\ qualities = <<15>>
    /\ webp_fp # NoFile

\* ------------------------------------------------------------------- C28
\* the ratio estimate alone, the trial encode of the primary format of size 0
\* included
InitRatio ==
    /\ PipeIdle
    /\ PadIdle
    /\ ConcIdle
    /\ IoIdle
    /\ est_target \in EstTargets
    /\ est_orig_size \in EstOrigSizes \cup {0}
    /\ est_webp_size \in EstWebpSizes
    /\ est_adjusted = << >>
    /\ est_ratio = << >>
    /\ est_trials = << >>
    /\ est_max_size = 0

SpecRatio == InitRatio /\ [][NextEst]_vars

\* C28: the ratio is 0.7 when the trial encode of the primary format has size
\* 0 and secondary size / primary size otherwise, so that computing it never
\* divides by zero; one run makes exactly one trial encode of the primary
\* format and one WebP trial encode at webp_quality, in that order.
C28_RatioGuarded ==
    IF est_adjusted = << >>
    THEN est_ratio = << >> /\ est_trials = << >>
    ELSE /\ est_ratio = IF est_orig_size = 0 THEN <<7, 10>>
                        ELSE <<est_webp_size, est_orig_size>>
         /\ est_ratio[2] # 0
         /\ est_orig_size = 0 =>
              est_adjusted[1] \in {(est_target * 11) \div 7 - 1, (est_target * 11) \div 7}
         /\ Len(est_trials) = 2
         /\ est_trials[1] = [format |-> "PNG", quality |-> << >>]
         /\ est_trials[2] = [format |-> "WEBP", quality |-> <<webp_quality>>]

\* the fallback was used: 10 KB at ratio 0.7 gives int(10 / 0.7 * 1.1) = 15
C28_Witness ==
    /\ est_orig_size = 0
    /\ est_target = 10
    /\ est_ratio = <<7, 10>>
    /\ est_adjusted = <<15>>
    /\ Len(est_trials) = 2

\* ------------------------------------------- the directory loop, and C29
\* compress_image on a directory: once the call for one file has returned, the
\* loop calls compress_image for the next file with the arguments of the first;
\* an exception leaves the loop.  The next file has paths of its own, and the
\* call for it has locals of its own, unbound until it assigns them.
Unbound == 0 - 2

compress_image_dir ==
    /\ pc = "end" /\ entry = "file" /\ outcome = "returned"
    /\ first_file' = FALSE
    /\ fmt' \in {"PNG", "JPEG"}
    /\ pc' = "call"
    /\ outcome' = "running"
    /\ adjusted_target_size' = << >>
    /\ adjusted_size_range' = << >>
    /\ trials' = << >>
    /\ current_size' = 0
    /\ new_fp' = NoFile
    /\ webp_fp' = NoFile
    /\ last_q' = 0
    /\ encodes' = 0
    /\ best_size' = Inf
    /\ qualities' = << >>
    /\ search' = "none"
    /\ stop' = ""
    /\ pad_added' = 0
    /\ UNCHANGED <<entry, quality, webp, webp_quality, target_size, size_range, pngquant_cmd>>
    /\ current_quality' = Unbound
    /\ attempts' = Unbound
    /\ small_change_count' = Unbound
    /\ previous_size' = Unbound
    /\ UNCHANGED <<warned, temp_file_path, temp_img_path, compressed_img_bytes>>
    /\ UNCHANGED <<padvars, concvars, estvars, iovars>>

NextDir == Next \/ compress_image_dir

SpecDir == InitLive /\ [][NextDir]_vars

\* the state of a search that has measured nothing yet
FreshSearchState == attempts = 0 /\ small_change_count = 0 /\ previous_size = Inf

\* C29: the search state is local to one search.  From the step that starts
\* a search to its first encode, attempts and small_change_count are 0 and
\* previous_size is +infinity, whatever ran before: the WebP search inherits
\* nothing of the primary search, and the searches of the next file of a
\* directory nothing of the file before.
C29_SearchStateIsLocal ==
    (search \in Loops /\ encodes = 0) => FreshSearchState

\* C29 witness: the WebP search of a later file of a directory has measured
\* its first size and nothing else, after the searches of the files before it
\* and the primary search of its own file.
C29_Witness ==
    /\ ~first_file
    /\ search = "webp"
    /\ encodes = 1
    /\ attempts = 1
    /\ small_change_count = 0
    /\ previous_size = current_size

\* --------------------------------------- the files of a search, and C30
\* A search is followed for at most MaxRounds iterations of its loop.
\* The output arguments: none, the directory of the source, another
\* directory, the path of the source itself, a path where no file is.
OutputArgs ==
    {OutputNone,
     [kind |-> "dir", dir |-> "d", name |-> ""],
     [kind |-> "dir", dir |-> "e", name |-> ""],
     [kind |-> "file", dir |-> "d", name |-> "a"],
     [kind |-> "file", dir |-> "e", name |-> "b"]}

PathOf(o) == [dir |-> o.dir, name |-> o.name]

\* generate_output_path: <<the path>>, or << >> for FileExistsError
generate_output_path(fp, output, disk) ==
    LET new_name == [dir |-> fp.dir, name |-> "a_uuid_compressed"]
    IN  IF output.kind = "none" THEN <<new_name>>
        ELSE IF output.kind = "dir" THEN <<[dir |-> output.dir, name |-> new_name.name]>>
        ELSE IF PathOf(output) \in DOMAIN disk THEN << >>
        ELSE <<PathOf(output)>>

\* optimize_output_path: <<the path>>, or << >> for FileExistsError
optimize_output_path(fp, output, force, disk) ==
    IF force
    THEN IF output.kind = "none" THEN <<fp>>
         ELSE IF output.kind = "dir" THEN <<[dir |-> output.dir, name |-> fp.name]>>
         ELSE <<PathOf(output)>>
    ELSE generate_output_path(fp, output, disk)

\* the file a path holds after a write
WriteFile(disk, path, image) ==
    [p \in DOMAIN disk \cup {path} |-> IF p = path THEN image ELSE disk[p]]

\* the path every iteration of the loop reads: fp in _compress_jpg and
\* _compress_png, temp_file_path in compress_image_from_bytes
LoopInput == IF io_entry = "file" THEN Fp ELSE TempFilePath

\* _compress_jpg, _compress_png: new_fp = optimize_output_path(fp, output, force)
IoFileStart ==
    /\ io_pc = "start" /\ io_entry = "file"
    /\ io_new_fp' = optimize_output_path(Fp, io_output, io_force, io_disk)
    /\ io_pc' = IF io_new_fp' = << >> THEN "end" ELSE "loop"
    /\ UNCHANGED <<io_entry, io_fmt, io_force, io_output, io_disk, io_inputs>>
    /\ UNCHANGED io_small_change_count
    /\ UNCHANGED <<pipevars, padvars, concvars, estvars, dirvars>>

\* compress_image_from_bytes: the first encode reads the image of image_bytes;
\* its output is written to temp_file_path, the file the loop works on
IoBytesStart ==
    /\ io_pc = "start" /\ io_entry = "bytes"
    /\ io_inputs' = <<io_disk[ImageBytes]>>
    /\ io_disk' = WriteFile(io_disk, TempFilePath, 1)
    /\ io_new_fp' = <<TempFilePath>>
    /\ io_pc' = "loop"
    /\ UNCHANGED <<io_entry, io_fmt, io_force, io_output, io_small_change_count>>
    /\ UNCHANGED <<pipevars, padvars, concvars, estvars, dirvars>>

\* whether the iteration about to run is the first of its loop, the one that
\* finds previous_size at +infinity
FirstOfLoop == Len(io_inputs) = (IF io_entry = "file" THEN 0 ELSE 1)

\* one iteration of a search loop: the encoder reads the loop's input path and
\* writes new_fp; pngquant (--skip-if-larger) may write nothing, and the loop
\* is left when no file is at new_fp.  The size then measured satisfies the
\* constraint or not, and lies less than 5 KB under the previous one or not;
\* the file entry breaks on a satisfying size before the stall test, and the
\* third small change in a row raises the convergence failure.
IoIterate ==
    /\ io_pc = "loop"
    /\ Len(io_inputs) < MaxRounds
    /\ io_inputs' = Append(io_inputs, io_disk[LoopInput])
    /\ \E written \in (IF io_fmt = "PNG" THEN BOOLEAN ELSE {TRUE}) :
         io_disk' = IF written
                    THEN WriteFile(io_disk, io_new_fp[1], Len(io_inputs) + 1)
                    ELSE io_disk
    /\ \E satisfied \in (IF io_entry = "file" THEN BOOLEAN ELSE {FALSE}),
          small \in (IF FirstOfLoop THEN {FALSE} ELSE BOOLEAN) :
         IF io_new_fp[1] \notin DOMAIN io_disk' \/ satisfied
         THEN io_pc' = "end" /\ UNCHANGED io_small_change_count
         ELSE /\ io_small_change_count' = IF small THEN io_small_change_count + 1 ELSE 0
              /\ io_pc' = IF io_small_change_count' >= 3 THEN "failed" ELSE "loop"
    /\ UNCHANGED <<io_entry, io_fmt, io_force, io_output, io_new_fp>>
    /\ UNCHANGED <<pipevars, padvars, concvars, estvars, dirvars>>

\* the loop is left: the size satisfies the constraint, or the search gives up
IoLeave ==
    /\ io_pc = "loop"
    /\ io_pc' = "end"
    /\ UNCHANGED <<io_entry, io_fmt, io_force, io_output, io_new_fp, io_disk, io_inputs>>
    /\ UNCHANGED io_small_change_count
    /\ UNCHANGED <<pipevars, padvars, concvars, estvars, dirvars>>

InitIo ==
    /\ PipeIdle
    /\ PadIdle
    /\ ConcIdle
    /\ EstIdle
    /\ io_entry \in {"file", "bytes"}
    /\ io_fmt \in {"PNG", "JPEG"}
    /\ io_force \in (IF io_entry = "file" THEN BOOLEAN ELSE {FALSE})
    /\ io_output \in (IF io_entry = "file" THEN OutputArgs ELSE {OutputNone})
    /\ io_pc = "start"
    /\ io_new_fp = << >>
    /\ io_disk = ((IF io_entry = "file" THEN Fp ELSE ImageBytes) :> SourceImage)
    /\ io_inputs = << >>
    /\ io_small_change_count = 0

NextIo == IoFileStart \/ IoBytesStart \/ IoIterate \/ IoLeave

SpecIo == InitIo /\ [][NextIo]_vars

\* C30: every encode of a search reads the source image, never the output an
\* earlier iteration wrote, whatever force and output are and in both entry
\* points.
C30_EncodesSourceOnly ==
    \A k \in 1..Len(io_inputs) : io_inputs[k] = SourceImage

\* ------------------------------------------------------------------- C31
\* C31: a compress_image run that ends in the convergence failure leaves the
\* caller's input file as it was, whatever force and output are.
C31_FailureKeepsInput ==
    (io_entry = "file" /\ io_pc = "failed") => io_disk[Fp] = SourceImage

\* ------------------------------------------- _convert_to_webp alone, C32
\* _convert_to_webp called on a path of its own: a primary-format file of some
\* size, or no file, with a target, a range or neither, and with a WebP
\* quality above or below the floor of 10 the loop steps down to.
InitWebp ==
    /\ entry = "file"
    /\ fmt = "JPEG"
    /\ quality = << >>
    /\ webp = TRUE
    /\ webp_quality \in WebpQualityArgs(TRUE) \cup {5}
    /\ target_size \in {<< >>, <<2 * GridKB>>}
    /\ size_range \in (IF IsNone(target_size)
                       THEN {<< >>, <<2 * GridKB, 3 * GridKB>>} ELSE {<< >>})
    /\ pngquant_cmd = TRUE
    /\ pc = "primary_done"
    /\ outcome = "running"
    /\ warned = {}
    /\ first_file = TRUE
    /\ adjusted_target_size = << >>
    /\ adjusted_size_range = << >>
    /\ trials = << >>
    /\ current_quality = 0
    /\ attempts = 0
    /\ small_change_count = 0
    /\ previous_size = Inf
    /\ current_size = 0
    /\ new_fp \in EncSizes \cup {NoFile}
    /\ webp_fp = NoFile
    /\ temp_file_path = NoFile
    /\ temp_img_path = NoFile
    /\ compressed_img_bytes = NoFile
    /\ last_q = 0
    /\ encodes = 0
    /\ best_size = Inf
    /\ qualities = << >>
    /\ search = "none"
    /\ stop = ""
    /\ pad_added = 0
    /\ PadIdle
    /\ ConcIdle
    /\ EstIdle
    /\ IoIdle

NextWebp == ConvertToWebpBegin \/ WebpIter \/ WebpReturn

SpecWebp == InitWebp /\ [][NextWebp]_vars

\* C32: the file effects of _convert_to_webp.  A normal return for an
\* existing input has deleted the primary-format file and left a .webp file;
\* the convergence failure leaves the primary-format file as it was; for an
\* input path with no file the call returns None and creates and deletes no
\* file.
C32_WebpFileEffects ==
    /\ [][(outcome = "running" /\ outcome' = "returned")
            => (new_fp # NoFile /\ new_fp' = NoFile /\ webp_fp' # NoFile)]_vars
    /\ [][(outcome = "running" /\ outcome' = "ConvergenceFailure")
            => (new_fp # NoFile /\ new_fp' = new_fp)]_vars
    /\ [][(pc = "primary_done" /\ new_fp = NoFile)
            => (outcome' = "returned_none" /\ UNCHANGED files)]_vars

\* C32 witness: the conversion of an existing file has failed to converge,
\* and the primary-format file is still there, next to the last .webp written.
C32_Witness ==
    /\ outcome = "ConvergenceFailure"
    /\ search = "webp"
    /\ new_fp # NoFile
    /\ webp_fp # NoFile

\* ------------------------------------------------------------------- C33
\* C33: within one search the quality passed to the encoder never rises from
\* one encode to the next.
C33_QualityNonIncreasing ==
    search \in Loops =>
        \A k \in 1..(Len(qualities) - 1) : qualities[k + 1] <= qualities[k]

\* ------------------------------------------------------------------- C34
\* C34: previous_size starts at +infinity, so the first size a search measures
\* resets the streak, and the convergence failure is never raised before the
\* 4th encode of a search (the 4th encode inside the loop, in the bytes entry).
C34_NoFailureBeforeFourthEncode ==
    /\ (search \in Loops /\ encodes = 1) => small_change_count = 0
    /\ stop = "stall" => encodes >= 4

\* C34 witness: a search has failed to converge at its 4th encode.
C34_Witness ==
    /\ outcome = "ConvergenceFailure"
    /\ stop = "stall"
    /\ encodes = 4
    /\ small_change_count = 3

\* ------------------------------------------------------------------- C35
\* C35: the ratio the constraint is divided by is strictly positive for every
\* pair of trial sizes, so the rescale never divides by zero.
C35_RescaleNeverDividesByZero ==
    outcome # "ZeroDivisionError"

\* ---------------------------------------- the rescale of a range, and C36
\* The ratio estimate of _compress_png for a size_range that passed the
\* validation of compress_image (0 < min_size < max_size), with a ratio above
\* zero: adjusted_size_range = (int(min_size / ratio * 1.1),
\* int(max_size / ratio * 1.1)).
\* max_size is the next integer after min_size (the narrowest range; the order
\* of every wider range follows from these by transitivity), one grid step
\* above it, or the largest size.
InitRange ==
    /\ PipeIdle
    /\ PadIdle
    /\ ConcIdle
    /\ IoIdle
    /\ est_target \in 1..MaxTargetKB
    /\ est_max_size \in {est_target + 1, est_target + GridKB, MaxTargetKB + 1}
    /\ est_orig_size \in EstOrigSizes \cup {0}
    /\ est_webp_size \in EstWebpSizes
    /\ est_adjusted = << >>
    /\ est_ratio = << >>
    /\ est_trials = << >>

EstimateRange ==
    /\ est_adjusted = << >>
    /\ est_adjusted' = <<Rescale(est_target,
                                 RatioNum(est_orig_size, est_webp_size),
                                 RatioDen(est_orig_size, est_webp_size)),
                         Rescale(est_max_size,
                                 RatioNum(est_orig_size, est_webp_size),
                                 RatioDen(est_orig_size, est_webp_size))>>
    /\ est_ratio' = <<RatioNum(est_orig_size, est_webp_size),
                      RatioDen(est_orig_size, est_webp_size)>>
    /\ est_trials' = TrialEncodes
    /\ UNCHANGED <<est_target, est_orig_size, est_webp_size, est_max_size>>
    /\ UNCHANGED <<pipevars, padvars, concvars, dirvars, iovars>>

NextRange == EstimateRange

SpecRange == InitRange /\ [][NextRange]_vars

\* C36: rescaling keeps the order of the bounds of a range: for min_size <
\* max_size and a ratio above zero, adjusted_min <= adjusted_max, which is the
\* negation of the test `min_size > max_size` that raises 'Minimum size cannot
\* be greater than maximum size' in _compress_png.
C36_RescaleKeepsOrder ==
    est_adjusted # << >> => est_adjusted[1] <= est_adjusted[2]

\* C36 witness: a range with min_size < max_size has been rescaled, and its
\* adjusted bounds are equal: the order is kept, but only weakly.
C36_Witness ==
    /\ est_adjusted # << >>
    /\ est_target < est_max_size
    /\ est_adjusted[1] = est_adjusted[2]

====
